---- MODULE Spec2Model ----
(***************************************************************************)
(* SyncOS kernel core: physical memory manager (pmm.c), virtual memory     *)
(* manager (vmm.c), ELF loader (elf.c) and process manager / scheduler     *)
(* (process.c), modelled as a state machine.                               *)
(*                                                                         *)
(* Representation.                                                         *)
(*  - A physical address is a page number (address / 4096); 0 is the null  *)
(*    address.  Every address the modelled code handles is page aligned.   *)
(*  - A virtual address is the tuple <<pml4, pdpt, pd, pt>> of its four    *)
(*    table indices (PML4_INDEX .. PT_INDEX of vmm.c).                     *)
(*  - A page table is the function from the indices of its non-zero        *)
(*    entries to the entries; a zero-filled table is the empty function.   *)
(*  - A pointer to a PCB is the index of its slot in process_table; NULL   *)
(*    is the null pointer.                                                 *)
(***************************************************************************)
EXTENDS Integers, Sequences, FiniteSets, TLC

(***************************************************************************)
(* Bounds of the model.                                                    *)
(***************************************************************************)
\* Largest number of allocatable frames of the managed arena.
MaxPages == 12
\* Smallest number of allocatable frames of the managed arena.
MinPages == 9
\* Number of PCB slots (PROCESS_MAX_COUNT scaled down), idle slot included.
MaxProc == 3
\* Largest PID the model hands out.
MaxPid == 3
\* Largest number of timer ticks.
MaxTicks == 1

\* The scheduler specification: PCB slots, PIDs handed out, arena frames.
SchedProc == 2

SchedPids == 2

SchedPages == 24

\* Slots of the timer callback table (MAX_TIMER_CALLBACKS scaled down).
TimerSlots == 2
\* Handler slots of an IRQ line (MAX_IRQ_HANDLERS scaled down).
IrqSlots == 2
\* The IRQ lines of the model: the timer line, the cascade line, and the
\* two lines that can be spurious, one on each controller.
IrqLines == {0, 2, 7, 15}

(***************************************************************************)
(* Program constants.                                                      *)
(***************************************************************************)
PIT_BASE_FREQUENCY == 1193182
SPINLOCK_FLAG_RECURSIVE == 1
SPINLOCK_FLAG_IRQSAFE == 2
\* gdt.h
GDT_ENTRIES == 6
GDT_KERNEL_CODE == 8
GDT_KERNEL_DATA == 16
GDT_TSS == 40
GDT_KERNEL_CODE_ACCESS == 154
GDT_KERNEL_DATA_ACCESS == 146
GDT_USER_CODE_ACCESS == 250
GDT_USER_DATA_ACCESS == 242
GDT_TSS_ACCESS == 137
GDT_KERNEL_CODE_FLAGS == 160
GDT_KERNEL_DATA_FLAGS == 160
GDT_USER_CODE_FLAGS == 160
GDT_USER_DATA_FLAGS == 160
GDT_TSS_FLAGS == 0
\* gdt.c:24, 28
MAX_GDT_RECOVERY_ATTEMPTS == 3
GDT_VERIFICATION_INTERVAL == 1000
\* sizeof(tss_t) - 1, gdt.h:49-60
TssLimit == 103
\* pmm.c:34, start_address 0x100000 as a page number.
KernelStartPage == 256
\* pmm.c:125, the first 256 bits of the bitmap are set at init.
LowReserved == 256
\* process.c:20
DEFAULT_TIME_QUANTUM == 20
\* elf.h
ELFCLASS64 == 2
ELFDATA2LSB == 1
EM_X86_64 == 62
ET_EXEC == 2
ET_DYN == 3
PT_LOAD == 1
\* sizeof(elf64_header_t), elf.h:78-93
ElfHeaderSize == 64
\* Bytes of a page (PAGE_SIZE_4K).
PAGE_SIZE_4K == 4096
\* Entries of a page table, vmm.c:25-28 (index mask 0x1FF).
TableEntries == 512
\* First PML4 index of the higher half, vmm.c:196 and 736.
KernelHalf == 256
\* process.c:240, 0xEFFFF000 as a page number.
StackBasePage == 983039

NULL == 0 - 1

STATE_NEW == "NEW"
STATE_READY == "READY"
STATE_RUNNING == "RUNNING"
STATE_BLOCKED == "BLOCKED"
STATE_SUSPENDED == "SUSPENDED"
STATE_TERMINATED == "TERMINATED"
ProcessStates ==
    {STATE_NEW, STATE_READY, STATE_RUNNING, STATE_BLOCKED, STATE_SUSPENDED,
     STATE_TERMINATED}

VARIABLES
    page_bitmap,          \* pmm.c: bit of each allocatable frame, TRUE = used
    max_pages,            \* pmm_config.max_pages (allocatable part)
    pt_mem,               \* contents of the page-table frames
    current_pml4_phys,    \* vmm.c:60, shadow of CR3
    using_nx,             \* vmm_config.using_nx
    area_used,            \* vmm.c:63-64, is_used of the user and kernel area
    process_table,        \* process.c:23
    next_pid,             \* process.c:24
    current_process,      \* process.c:25
    ready_queue_head,     \* process.c:29
    ready_queue_tail,     \* process.c:30
    blocked_queue_head,   \* process.c:31
    interrupts,           \* RFLAGS.IF
    timer_tick_count,     \* timer.c
    timer_frequency,      \* timer.c:22
    timer_initialized,    \* timer.c:25
    timer_callbacks,      \* timer.c:24
    sleeper,              \* the timer_sleep_ms in progress: its argument and locals
    irq_handlers,         \* irq.c:27
    irq_enabled_mask,     \* irq.c:38, the lines whose bit is set
    pic_master_mask,      \* pic.c:20, the bits that are set
    pic_slave_mask,       \* pic.c:21, the bits that are set
    pic_imr,              \* the mask registers of the two 8259s, as last written
    spinlock,             \* a spinlock_t and the flags of its tracking entry
    gdt_c,                \* gdt.c:9-25, the statics of the descriptor table
    eoi_pending,          \* the PCB slots whose kernel stack holds an irq_dispatch
                          \* of IRQ 0 that has not reached its EOI (NULL: a stack
                          \* no context remembers)
    hung,                 \* the CPU is halted or inside a loop that never ends
    last_op               \* history: the last operation, its inputs and result

vars ==
    <<page_bitmap, max_pages, pt_mem, current_pml4_phys, using_nx, area_used,
      process_table,
      next_pid, current_process, ready_queue_head, ready_queue_tail,
      blocked_queue_head, interrupts, timer_tick_count, timer_frequency,
      timer_initialized, timer_callbacks, sleeper, irq_handlers,
      irq_enabled_mask, pic_master_mask, pic_slave_mask, pic_imr, spinlock,
      gdt_c, eoi_pending, hung, last_op>>

\* The kernel state as one record, threaded through the operators below.
St ==
    [page_bitmap |-> page_bitmap, max_pages |-> max_pages, pt_mem |-> pt_mem,
     current_pml4_phys |-> current_pml4_phys, using_nx |-> using_nx,
     area_used |-> area_used,
     process_table |-> process_table, next_pid |-> next_pid,
     current_process |-> current_process, ready_queue_head |-> ready_queue_head,
     ready_queue_tail |-> ready_queue_tail,
     blocked_queue_head |-> blocked_queue_head, interrupts |-> interrupts,
     timer_tick_count |-> timer_tick_count, hung |-> hung,
     timer_frequency |-> timer_frequency,
     timer_initialized |-> timer_initialized,
     timer_callbacks |-> timer_callbacks,
     sleeper |-> sleeper,
     irq_handlers |-> irq_handlers,
     irq_enabled_mask |-> irq_enabled_mask,
     pic_master_mask |-> pic_master_mask,
     pic_slave_mask |-> pic_slave_mask,
     pic_imr |-> pic_imr,
     spinlock |-> spinlock,
     gdt_c |-> gdt_c,
     eoi_pending |-> eoi_pending,
     sched |-> FALSE, switched |-> FALSE, slot |-> NULL]

Commit(s) ==
    /\ page_bitmap' = s.page_bitmap
    /\ max_pages' = s.max_pages
    /\ pt_mem' = s.pt_mem
    /\ current_pml4_phys' = s.current_pml4_phys
    /\ using_nx' = s.using_nx
    /\ area_used' = s.area_used
    /\ process_table' = s.process_table
    /\ next_pid' = s.next_pid
    /\ current_process' = s.current_process
    /\ ready_queue_head' = s.ready_queue_head
    /\ ready_queue_tail' = s.ready_queue_tail
    /\ blocked_queue_head' = s.blocked_queue_head
    /\ interrupts' = s.interrupts
    /\ timer_tick_count' = s.timer_tick_count
    /\ timer_frequency' = s.timer_frequency
    /\ timer_initialized' = s.timer_initialized
    /\ timer_callbacks' = s.timer_callbacks
    /\ sleeper' = s.sleeper
    /\ irq_handlers' = s.irq_handlers
    /\ irq_enabled_mask' = s.irq_enabled_mask
    /\ pic_master_mask' = s.pic_master_mask
    /\ pic_slave_mask' = s.pic_slave_mask
    /\ pic_imr' = s.pic_imr
    /\ spinlock' = s.spinlock
    /\ gdt_c' = s.gdt_c
    /\ eoi_pending' = s.eoi_pending
    /\ hung' = s.hung

Min(S) == CHOOSE x \in S : \A y \in S : x <= y

(***************************************************************************)
(* Physical memory manager, pmm.c.                                         *)
(* Bit j of the model is bit LowReserved + j of page_bitmap: the bits      *)
(* below are set by pmm_init and belong to no allocation.                  *)
(***************************************************************************)
FirstFrame == KernelStartPage + LowReserved

PhysOf(i) == FirstFrame + i

\* page >= pmm_config.kernel_end, pmm.c:225.
PastArena(s, page) == page >= FirstFrame + s.max_pages

InArena(s, page) == page >= FirstFrame /\ ~PastArena(s, page)

\* pmm_alloc_page and pmm_alloc_pages before pmm_init: page_bitmap is NULL
\* and the call returns 0 (pmm.c:140-142, 168-170).
pmm_uninitialised(s) == [s |-> s, ret |-> 0]

\* pmm_alloc_page: first clear bit, scanning upwards.
pmm_alloc_page(s) ==
    LET free == {i \in 0 .. (s.max_pages - 1) : ~s.page_bitmap[i]}
    IN  IF free = {}
        THEN [s |-> s, ret |-> 0]
        ELSE LET i == Min(free)
             IN  [s |-> [s EXCEPT !.page_bitmap[i] = TRUE], ret |-> PhysOf(i)]

\* The scan of pmm_alloc_pages: i is the loop index, found_pages and
\* start_page the loop's locals; the result is the first page of the run, or
\* NULL when the loop ends without one.
RECURSIVE pmm_scan(_, _, _, _, _)
pmm_scan(s, count, i, found_pages, start_page) ==
    IF i >= s.max_pages
    THEN NULL
    ELSE IF ~s.page_bitmap[i]
         THEN LET start == IF found_pages = 0 THEN i ELSE start_page
              IN  IF found_pages + 1 = count
                  THEN start
                  ELSE pmm_scan(s, count, i + 1, found_pages + 1, start)
         ELSE pmm_scan(s, count, i + 1, 0, start_page)

pmm_alloc_pages(s, count) ==
    IF count = 0
    THEN [s |-> s, ret |-> 0]
    ELSE IF count = 1
         THEN pmm_alloc_page(s)
         ELSE LET start == pmm_scan(s, count, 0, 0, 0)
              IN  IF start = NULL
                  THEN [s |-> s, ret |-> 0]
                  ELSE [s |-> [s EXCEPT !.page_bitmap =
                                  [j \in DOMAIN s.page_bitmap |->
                                      IF j >= start /\ j < start + count
                                      THEN TRUE ELSE s.page_bitmap[j]]],
                        ret |-> PhysOf(start)]

\* pmm_free_page: pages outside the arena are ignored.
pmm_free_page(s, page) ==
    IF ~InArena(s, page)
    THEN s
    ELSE [s EXCEPT !.page_bitmap[page - FirstFrame] = FALSE]

RECURSIVE pmm_free_pages(_, _, _)
pmm_free_pages(s, page, count) ==
    IF count = 0
    THEN s
    ELSE pmm_free_pages(pmm_free_page(s, page), page + 1, count - 1)

pmm_is_page_free(s, page) ==
    IF ~InArena(s, page) THEN FALSE ELSE ~s.page_bitmap[page - FirstFrame]

\* pmm_get_free_memory, in pages.
pmm_get_free_memory(s) ==
    Cardinality({i \in 0 .. (s.max_pages - 1) : ~s.page_bitmap[i]})

(***************************************************************************)
(* Virtual addresses.                                                      *)
(***************************************************************************)
NullVA == <<0, 0, 0, 0>>

PML4_INDEX(va) == va[1]
PDPT_INDEX(va) == va[2]
PD_INDEX(va) == va[3]
PT_INDEX(va) == va[4]

\* The address of virtual page number n.
VaOfPage(n) ==
    <<n \div (TableEntries * TableEntries * TableEntries),
      (n \div (TableEntries * TableEntries)) % TableEntries,
      (n \div TableEntries) % TableEntries,
      n % TableEntries>>

\* virt + k pages, inside one PML4 slot.
VaAdd(va, k) ==
    LET n == (va[2] * TableEntries + va[3]) * TableEntries + va[4] + k
    IN  <<va[1], (n \div (TableEntries * TableEntries)) % TableEntries,
          (n \div TableEntries) % TableEntries, n % TableEntries>>

\* hhdm_offset is 0xffff800000000000 (vmm.c:342): PML4 slot 256 onwards.
AboveHhdm(va) == va[1] >= KernelHalf

\* virt < 0x8000000000000000, vmm.c:196.
LowerHalf(va) == va[1] < KernelHalf

\* The physical page the direct map gives an address at or above hhdm_offset.
HhdmPhys(va) ==
    (((va[1] - KernelHalf) * TableEntries + va[2]) * TableEntries + va[3]) * TableEntries + va[4]

(***************************************************************************)
(* Virtual memory manager, vmm.c.                                          *)
(***************************************************************************)
\* Physical page of the boot PML4 that vmm_init reads from CR3, and of the
\* PDPT its higher-half entry points to; both lie outside the PMM arena.
KernelPml4 == 16
BootPdpt == 17

ZeroTable == <<>>

Entry(addr, flags) == [addr |-> addr, flags |-> flags]

\* The table at phys_to_virt(phys).
TableAt(s, phys) == IF phys \in DOMAIN s.pt_mem THEN s.pt_mem[phys] ELSE ZeroTable

EntryPresent(t, idx) == idx \in DOMAIN t /\ "P" \in t[idx].flags

EntryHuge(t, idx) == idx \in DOMAIN t /\ "HUGE" \in t[idx].flags

WriteEntry(s, frame, idx, e) ==
    IF frame \in DOMAIN s.pt_mem
    THEN [s EXCEPT !.pt_mem[frame] = (idx :> e) @@ @]
    ELSE s

ZeroEntry(s, frame, idx) ==
    IF frame \in DOMAIN s.pt_mem
    THEN [s EXCEPT !.pt_mem[frame] = [i \in (DOMAIN @) \ {idx} |-> @[i]]]
    ELSE s

\* create_page_table: a frame from the PMM, zero-filled; a is what
\* pmm_alloc_page gave.
ZeroFilled(a) ==
    IF a.ret = 0
    THEN a
    ELSE [s |-> [a.s EXCEPT !.pt_mem = (a.ret :> ZeroTable) @@ @], ret |-> a.ret]

create_page_table(s) == ZeroFilled(pmm_alloc_page(s))

\* The flags of an intermediate entry, vmm.c:193-198.
DirFlags(virt) == IF LowerHalf(virt) THEN {"P", "W", "U"} ELSE {"P", "W"}

\* The new table c linked into entry idx of the table at `frame`.
LinkTable(c, frame, idx, virt) ==
    IF c.ret = 0
    THEN c
    ELSE [s |-> WriteEntry(c.s, frame, idx, Entry(c.ret, DirFlags(virt))),
          ret |-> c.ret]

\* One "ensure the next table exists" step of map_page_internal.
EnsureTable(s, frame, idx, virt) ==
    IF EntryPresent(TableAt(s, frame), idx)
    THEN [s |-> s, ret |-> TableAt(s, frame)[idx].addr]
    ELSE LinkTable(create_page_table(s), frame, idx, virt)

Aligned1G(virt, phys) ==
    virt[3] = 0 /\ virt[4] = 0 /\ phys % (TableEntries * TableEntries) = 0

Aligned2M(virt, phys) == virt[4] = 0 /\ phys % TableEntries = 0

\* map_page_internal from the page directory on: c is the outcome of
\* ensuring the page table.
MapInPt(c, virt, phys, flags) ==
    IF c.ret = 0
    THEN [s |-> c.s, ret |-> FALSE]
    ELSE [s |-> WriteEntry(c.s, c.ret, PT_INDEX(virt), Entry(phys, flags)),
          ret |-> TRUE]

\* map_page_internal from the PDPT on: b is the outcome of ensuring the PD.
MapInPd(b, virt, phys, flags) ==
    IF b.ret = 0
    THEN [s |-> b.s, ret |-> FALSE]
    ELSE IF "HUGE" \in flags /\ Aligned2M(virt, phys)
    THEN [s |-> WriteEntry(b.s, b.ret, PD_INDEX(virt), Entry(phys, flags \cup {"HUGE"})),
          ret |-> TRUE]
    ELSE MapInPt(EnsureTable(b.s, b.ret, PD_INDEX(virt), virt), virt, phys, flags)

\* map_page_internal from the PML4 on: a is the outcome of ensuring the PDPT.
MapInPdpt(a, virt, phys, flags) ==
    IF a.ret = 0
    THEN [s |-> a.s, ret |-> FALSE]
    ELSE IF "HUGE" \in flags /\ Aligned1G(virt, phys)
    THEN [s |-> WriteEntry(a.s, a.ret, PDPT_INDEX(virt), Entry(phys, flags \cup {"HUGE"})),
          ret |-> TRUE]
    ELSE MapInPd(EnsureTable(a.s, a.ret, PDPT_INDEX(virt), virt), virt, phys, flags)

map_page_internal(s, pml4_phys, virt, phys, flags) ==
    IF pml4_phys = 0 \/ virt = NullVA \/ phys = 0
    THEN [s |-> s, ret |-> FALSE]
    ELSE MapInPdpt(EnsureTable(s, pml4_phys, PML4_INDEX(virt), virt), virt, phys, flags)

\* The hardware flags vmm_map_page derives from the VMM flags.
HwFlags(s, flags) ==
    {"P"} \cup (flags \cap {"W", "U", "PWT", "PCD", "G", "HUGE"})
          \cup (IF "NX" \in flags /\ s.using_nx THEN {"NX"} ELSE {})

vmm_map_page(s, virt_addr, phys_addr, flags) ==
    IF virt_addr = NullVA \/ phys_addr = 0
    THEN [s |-> s, ret |-> FALSE]
    ELSE map_page_internal(s, s.current_pml4_phys, virt_addr, phys_addr,
                           HwFlags(s, flags))

\* The walk shared by vmm_unmap_page, virt_to_phys and vmm_is_mapped: the
\* level at which it ends ("none", "1G", "2M", "4K"), the table frame and
\* index of the leaf.
Walk(s, virt) ==
    LET pml4 == TableAt(s, s.current_pml4_phys)
    IN  IF s.current_pml4_phys = 0 \/ ~EntryPresent(pml4, PML4_INDEX(virt))
        THEN [level |-> "none", frame |-> 0, idx |-> 0]
        ELSE
    LET pdptf == pml4[PML4_INDEX(virt)].addr
        pdpt == TableAt(s, pdptf)
    IN  IF pdptf = 0 \/ ~EntryPresent(pdpt, PDPT_INDEX(virt))
        THEN [level |-> "none", frame |-> 0, idx |-> 0]
        ELSE IF EntryHuge(pdpt, PDPT_INDEX(virt))
        THEN [level |-> "1G", frame |-> pdptf, idx |-> PDPT_INDEX(virt)]
        ELSE
    LET pdf == pdpt[PDPT_INDEX(virt)].addr
        pd == TableAt(s, pdf)
    IN  IF pdf = 0 \/ ~EntryPresent(pd, PD_INDEX(virt))
        THEN [level |-> "none", frame |-> 0, idx |-> 0]
        ELSE IF EntryHuge(pd, PD_INDEX(virt))
        THEN [level |-> "2M", frame |-> pdf, idx |-> PD_INDEX(virt)]
        ELSE
    LET ptf == pd[PD_INDEX(virt)].addr
        pt == TableAt(s, ptf)
    IN  IF ptf = 0 \/ ~EntryPresent(pt, PT_INDEX(virt))
        THEN [level |-> "none", frame |-> 0, idx |-> 0]
        ELSE [level |-> "4K", frame |-> ptf, idx |-> PT_INDEX(virt)]

vmm_unmap_page(s, virt_addr) ==
    IF virt_addr = NullVA
    THEN [s |-> s, ret |-> FALSE]
    ELSE LET w == Walk(s, virt_addr)
         IN  IF w.level = "none"
             THEN [s |-> s, ret |-> FALSE]
             ELSE [s |-> ZeroEntry(s, w.frame, w.idx), ret |-> TRUE]

\* virt_to_phys: addresses at or above hhdm_offset are translated by
\* subtraction, without a walk.
virt_to_phys(s, virt) ==
    IF AboveHhdm(virt)
    THEN HhdmPhys(virt)
    ELSE LET w == Walk(s, virt)
         IN  IF w.level = "none" THEN 0
             ELSE IF w.level = "1G"
                  THEN TableAt(s, w.frame)[w.idx].addr + virt[3] * TableEntries + virt[4]
             ELSE IF w.level = "2M"
                  THEN TableAt(s, w.frame)[w.idx].addr + virt[4]
             ELSE TableAt(s, w.frame)[w.idx].addr

vmm_get_physical_address(s, virt_addr) == virt_to_phys(s, virt_addr)

vmm_is_mapped(s, virt_addr) ==
    IF AboveHhdm(virt_addr) THEN TRUE ELSE Walk(s, virt_addr).level # "none"


\* The clean-up loop "for j < i: vmm_unmap_page(virt + j * step)".
RECURSIVE UnmapRun(_, _, _, _)
UnmapRun(s, virt, step, n) ==
    IF n = 0
    THEN s
    ELSE vmm_unmap_page(UnmapRun(s, virt, step, n - 1), VaAdd(virt, (n - 1) * step)).s

\* The mapping loop of vmm_map_pages from page i on: `step` pages per
\* mapping; the index of the first mapping that failed, or n.
RECURSIVE MapRun(_, _, _, _, _, _, _)
MapRun(s, virt, phys, flags, step, i, n) ==
    IF i = n
    THEN [s |-> s, failed |-> n]
    ELSE LET m == vmm_map_page(s, VaAdd(virt, i * step), phys + i * step, flags)
         IN  IF ~m.ret
             THEN [s |-> m.s, failed |-> i]
             ELSE MapRun(m.s, virt, phys, flags, step, i + 1, n)

\* The end of the 4 KB loop of vmm_map_pages: r is the loop's outcome over
\* `count` pages from start_virt, after huge_pages 2 MB mappings from
\* virt_addr.
MapPagesEnd(r, virt_addr, start_virt, huge_pages, count) ==
    IF r.failed < count
    THEN [s |-> UnmapRun(UnmapRun(r.s, start_virt, 1, r.failed),
                         virt_addr, TableEntries, huge_pages),
          ret |-> FALSE]
    ELSE [s |-> r.s, ret |-> TRUE]

\* The end of the 2 MB loop of vmm_map_pages: h is the loop's outcome.
MapPagesHuge(h, virt_addr, phys_addr, huge_pages, remaining, flags) ==
    IF h.failed < huge_pages
    THEN [s |-> UnmapRun(h.s, virt_addr, TableEntries, h.failed), ret |-> FALSE]
    ELSE MapPagesEnd(MapRun(h.s, VaAdd(virt_addr, huge_pages * TableEntries),
                            phys_addr + huge_pages * TableEntries,
                            flags \ {"HUGE"}, 1, 0, remaining),
                     virt_addr, VaAdd(virt_addr, huge_pages * TableEntries),
                     huge_pages, remaining)

vmm_map_pages(s, virt_addr, phys_addr, count, flags) ==
    IF "HUGE" \in flags /\ Aligned2M(virt_addr, phys_addr) /\ count >= TableEntries
    THEN MapPagesHuge(MapRun(s, virt_addr, phys_addr, flags, TableEntries, 0,
                             count \div TableEntries),
                      virt_addr, phys_addr, count \div TableEntries,
                      count % TableEntries, flags)
    ELSE MapPagesEnd(MapRun(s, virt_addr, phys_addr, flags \ {"HUGE"}, 1, 0, count),
                     virt_addr, virt_addr, 0, count)

\* vmm_create_address_space: a zeroed PML4 with entries 256-511 of the
\* current PML4 copied in.
CopyKernelHalf(c) ==
    IF c.ret = 0
    THEN c
    ELSE [s |-> [c.s EXCEPT !.pt_mem[c.ret] =
                    [i \in {j \in DOMAIN TableAt(c.s, c.s.current_pml4_phys) :
                              j >= KernelHalf}
                       |-> TableAt(c.s, c.s.current_pml4_phys)[i]]],
          ret |-> c.ret]

vmm_create_address_space(s) == CopyKernelHalf(create_page_table(s))

\* The frames vmm_delete_address_space passes to pmm_free_page: every
\* present non-huge PDPT, PD and PT frame under the lower half, and the PML4.
DeleteFrames(s, pml4_phys) ==
    LET pml4 == TableAt(s, pml4_phys)
        pdpts == {pml4[i].addr : i \in {j \in DOMAIN pml4 :
                                    j < KernelHalf /\ EntryPresent(pml4, j)}}
        pds == UNION {{TableAt(s, f)[i].addr : i \in {j \in DOMAIN TableAt(s, f) :
                          EntryPresent(TableAt(s, f), j) /\ ~EntryHuge(TableAt(s, f), j)}}
                      : f \in pdpts}
        pts == UNION {{TableAt(s, f)[i].addr : i \in {j \in DOMAIN TableAt(s, f) :
                          EntryPresent(TableAt(s, f), j) /\ ~EntryHuge(TableAt(s, f), j)}}
                      : f \in pds}
    IN  pts \cup pds \cup pdpts \cup {pml4_phys}

RECURSIVE FreeFrameSet(_, _)
FreeFrameSet(s, F) ==
    IF F = {}
    THEN s
    ELSE LET f == Min(F) IN FreeFrameSet(pmm_free_page(s, f), F \ {f})

vmm_delete_address_space(s, pml4_phys) ==
    IF pml4_phys = 0 \/ pml4_phys = s.current_pml4_phys
    THEN s
    ELSE FreeFrameSet(s, DeleteFrames(s, pml4_phys))

vmm_switch_address_space(s, pml4_phys) ==
    IF pml4_phys = 0 \/ pml4_phys = s.current_pml4_phys
    THEN s
    ELSE [s EXCEPT !.current_pml4_phys = pml4_phys]

vmm_get_current_address_space(s) == s.current_pml4_phys

\* Pages for n bytes, (n + PAGE_SIZE_4K - 1) / PAGE_SIZE_4K.
PagesFor(n) == (n + PAGE_SIZE_4K - 1) \div PAGE_SIZE_4K

\* The two areas vmm_init registers (vmm.c:375-385): the kernel area at
\* hhdm_offset + 0x10000000 and the user area at 0x400000, each with its
\* flags and its size in pages.
KernelAreaBase == <<KernelHalf, 0, 128, 0>>

UserAreaBase == <<0, 0, 2, 0>>

AreaPages == 65536

AreaOf(flags) == IF "U" \in flags THEN "user" ELSE "kernel"

AreaBase(a) == IF a = "user" THEN UserAreaBase ELSE KernelAreaBase

AreaFlags(a) == IF a = "user" THEN {"P", "W", "U"} ELSE {"P", "W"}

\* The null pointer to an area.
NoArea == "none"

\* find_free_area over the one area of the list: the area, or NULL.
find_free_area(s, a, page_count) ==
    IF ~s.area_used[a] /\ AreaPages >= page_count THEN a ELSE NoArea

\* The clean-up loop of vmm_allocate over the first i pages of the area: the
\* frame released is the one vmm_get_physical_address reports for the page.
RECURSIVE AllocCleanup(_, _, _)
AllocCleanup(s, base, i) ==
    IF i = 0
    THEN s
    ELSE LET t == AllocCleanup(s, base, i - 1)
             addr == VaAdd(base, i - 1)
             page_phys == vmm_get_physical_address(t, addr)
         IN  pmm_free_page(vmm_unmap_page(t, addr).s, page_phys)

AllocFail(s, a, i) ==
    [s |-> [AllocCleanup(s, AreaBase(a), i) EXCEPT !.area_used[a] = FALSE],
     ret |-> NullVA]

\* The allocation loop of vmm_allocate from page i on.
RECURSIVE AllocLoop(_, _, _, _, _)
RECURSIVE AllocMapped(_, _, _, _, _, _)
RECURSIVE AllocFrame(_, _, _, _, _)
AllocMapped(m, phys, a, i, page_count, flags) ==
    IF ~m.ret
    THEN AllocFail(pmm_free_page(m.s, phys), a, i)
    ELSE AllocLoop(m.s, a, i + 1, page_count, flags)

AllocFrame(r, a, i, page_count, flags) ==
    IF r.ret = 0
    THEN AllocFail(r.s, a, i)
    ELSE AllocMapped(vmm_map_page(r.s, VaAdd(AreaBase(a), i), r.ret,
                                  flags \cup AreaFlags(a)),
                     r.ret, a, i, page_count, flags)

AllocLoop(s, a, i, page_count, flags) ==
    IF i = page_count
    THEN [s |-> s, ret |-> AreaBase(a)]
    ELSE AllocFrame(pmm_alloc_page(s), a, i, page_count, flags)

\* vmm_allocate(size, flags): the base of the area, or NULL.
vmm_allocate(s, size, flags) ==
    IF size = 0
    THEN [s |-> s, ret |-> NullVA]
    ELSE IF find_free_area(s, AreaOf(flags), PagesFor(size)) = NoArea
         THEN [s |-> s, ret |-> NullVA]
         ELSE AllocLoop([s EXCEPT !.area_used[AreaOf(flags)] = TRUE],
                        AreaOf(flags), 0, PagesFor(size), flags)

\* The loop of vmm_free from page i on.
RECURSIVE FreeLoop(_, _, _, _)
FreeLoop(s, virt_addr, i, page_count) ==
    IF i = page_count
    THEN s
    ELSE LET page_addr == VaAdd(virt_addr, i)
             phys_addr == vmm_get_physical_address(s, page_addr)
         IN  IF phys_addr # 0
             THEN FreeLoop(pmm_free_page(vmm_unmap_page(s, page_addr).s, phys_addr),
                           virt_addr, i + 1, page_count)
             ELSE FreeLoop(s, virt_addr, i + 1, page_count)

\* The area vmm_free marks unused: the one of the list chosen by the
\* address whose base is the address.
FreeArea(s, virt_addr) ==
    LET a == IF AboveHhdm(virt_addr) THEN "kernel" ELSE "user"
    IN  IF AreaBase(a) = virt_addr
        THEN [s EXCEPT !.area_used[a] = FALSE]
        ELSE s

vmm_free(s, addr, size) ==
    IF addr = NullVA \/ size = 0
    THEN s
    ELSE FreeArea(FreeLoop(s, addr, 0, PagesFor(size)), addr)

(***************************************************************************)
(* ELF loader, elf.c.                                                      *)
(***************************************************************************)
\* e_ident[EI_MAG0..EI_MAG3] of an ELF file: 0x7F 'E' 'L' 'F'.
ElfMagic == <<127, 69, 76, 70>>

\* A well-formed executable with one PT_LOAD segment of the given p_flags,
\* at virtual address 0x400000.
ElfWith(flags) ==
    [mag |-> ElfMagic, class |-> ELFCLASS64, data |-> ELFDATA2LSB, e_version |-> 1,
     e_machine |-> EM_X86_64, e_type |-> ET_EXEC, e_entry |-> 4194304,
     e_phoff |-> 64, e_phnum |-> 1, e_phentsize |-> 56,
     e_shoff |-> 120, e_shnum |-> 1, e_shentsize |-> 64,
     size |-> 8192,
     ph |-> <<[p_type |-> PT_LOAD, p_vaddr |-> <<0, 0, 2, 0>>, p_memsz |-> 4096,
               p_filesz |-> 4096, p_flags |-> flags]>>]

\* Width in bits of the GDT checksum (uint32_t, scaled down).
ChecksumBits == 16

\* Width in bits of the header's offsets and of size_t (64, scaled down).
OffsetBits == 16

OffsetModulus == 2 ^ OffsetBits

\* The buffers process_create is given, and six whose header tables end at
\* the end of the buffer (phend, shend), one byte past it (phpast, shpast)
\* and beyond the largest offset (phwrap, shwrap).
ElfFile ==
    [rx |-> ElfWith({"R", "X"}),
     rw |-> ElfWith({"R", "W"}),
     elx |-> [ElfWith({"R", "X"}) EXCEPT !.mag = <<127, 69, 76, 88>>],
     class32 |-> [ElfWith({"R", "X"}) EXCEPT !.class = 1],
     msb |-> [ElfWith({"R", "X"}) EXCEPT !.data = 2],
     badver |-> [ElfWith({"R", "X"}) EXCEPT !.e_version = 0],
     badmach |-> [ElfWith({"R", "X"}) EXCEPT !.e_machine = 3],
     rel |-> [ElfWith({"R", "X"}) EXCEPT !.e_type = 1],
     trunc |-> [ElfWith({"R", "X"}) EXCEPT !.size = 100],
     nosh |-> [ElfWith({"R", "X"}) EXCEPT !.e_shnum = 0],
     phend |-> [ElfWith({"R", "X"}) EXCEPT !.e_phoff = 8192 - 56],
     shend |-> [ElfWith({"R", "X"}) EXCEPT !.e_shoff = 8192 - 64],
     phpast |-> [ElfWith({"R", "X"}) EXCEPT !.e_phoff = 8192 - 55],
     shpast |-> [ElfWith({"R", "X"}) EXCEPT !.e_shoff = 8192 - 63],
     phwrap |-> [ElfWith({"R", "X"}) EXCEPT !.e_phoff = OffsetModulus - 56],
     shwrap |-> [ElfWith({"R", "X"}) EXCEPT !.e_shoff = OffsetModulus - 64]]

OffsetNames == {"phend", "shend", "phpast", "shpast", "phwrap", "shwrap"}

ElfNames == DOMAIN ElfFile \ OffsetNames

NoElf == "NULL"

validate_elf_header(h) ==
    /\ h.mag = ElfMagic
    /\ h.class = ELFCLASS64
    /\ h.data = ELFDATA2LSB
    /\ h.e_version = 1
    /\ h.e_machine = EM_X86_64
    /\ h.e_type \in {ET_EXEC, ET_DYN}
    /\ ~(h.e_phoff = 0 \/ h.e_phnum = 0)
    /\ h.e_entry # 0

\* The sums are taken in uint64_t.
validate_elf_size(h) ==
    /\ ~(h.size < ElfHeaderSize)
    /\ ~((h.e_phoff + h.e_phnum * h.e_phentsize) % OffsetModulus > h.size)
    /\ ~((h.e_shoff + h.e_shnum * h.e_shentsize) % OffsetModulus > h.size)


\* elf_is_valid: magic number and class only.
elf_is_valid(h) ==
    /\ ~(h.size < ElfHeaderSize)
    /\ h.mag = ElfMagic
    /\ h.class = ELFCLASS64


\* An elf_context_t after memset(ctx, 0, ...).
ZeroElfCtx ==
    [data |-> NoElf, header |-> NoElf, program_headers |-> 0, section_headers |-> 0,
     loaded_segments |-> <<>>, entry_point |-> 0]

\* process_alloc_pages / process_free_pages, the loader's callbacks.
process_alloc_pages(s, page_count) == pmm_alloc_pages(s, page_count)

process_free_pages(s, addr, page_count) == pmm_free_pages(s, addr, page_count)

\* elf_cleanup on the context of PCB slot p.
RECURSIVE FreeSegments(_, _)
FreeSegments(s, segs) ==
    IF segs = <<>>
    THEN s
    ELSE LET g == Head(segs)
             s1 == IF g.vaddr # 0 THEN process_free_pages(s, g.vaddr, g.size) ELSE s
         IN  FreeSegments(s1, Tail(segs))

elf_cleanup(s, p) ==
    LET ctx == s.process_table[p].elf_ctx
        s1 == IF ctx.program_headers # 0
              THEN process_free_pages(s, ctx.program_headers, 1) ELSE s
        s2 == IF ctx.section_headers # 0
              THEN process_free_pages(s1, ctx.section_headers, 1) ELSE s1
        s3 == FreeSegments(s2, ctx.loaded_segments)
    IN  [s3 EXCEPT !.process_table[p].elf_ctx =
            [ctx EXCEPT !.program_headers = 0, !.section_headers = 0,
                        !.loaded_segments = <<>>, !.entry_point = 0, !.data = NoElf]]

\* elf_init after parse_section_headers: b is what alloc_pages gave.
ElfInitSections(b, p) ==
    IF b.ret = 0
    THEN [s |-> elf_cleanup(b.s, p), ret |-> FALSE]
    ELSE [s |-> [b.s EXCEPT !.process_table[p].elf_ctx.section_headers = b.ret],
          ret |-> TRUE]

\* elf_init after parse_program_headers: a is what alloc_pages gave, h the
\* header.
ElfInitPrograms(a, p, h) ==
    IF a.ret = 0
    THEN [s |-> elf_cleanup(a.s, p), ret |-> FALSE]
    ELSE ElfInitSections(
           process_alloc_pages(
             [a.s EXCEPT !.process_table[p].elf_ctx.program_headers = a.ret],
             PagesFor(h.e_shnum * h.e_shentsize)),
           p)

\* elf_init on the context of PCB slot p, for the buffer named `file`.
elf_init(s, p, file) ==
    IF ElfFile[file].size < ElfHeaderSize
    THEN [s |-> s, ret |-> FALSE]
    ELSE IF ~validate_elf_header(ElfFile[file]) \/ ~validate_elf_size(ElfFile[file])
    THEN [s |-> [s EXCEPT !.process_table[p].elf_ctx =
                    [ZeroElfCtx EXCEPT !.data = file, !.header = file]],
          ret |-> FALSE]
    ELSE ElfInitPrograms(
           process_alloc_pages(
             [s EXCEPT !.process_table[p].elf_ctx =
                 [ZeroElfCtx EXCEPT !.data = file, !.header = file]],
             PagesFor(ElfFile[file].e_phnum * ElfFile[file].e_phentsize)),
           p, ElfFile[file])

\* vm_flags of elf_load is a uint32_t: VMM_FLAG_NO_EXECUTE, bit 63, does not
\* fit and is lost by the assignment.
Truncate32(flags) == flags \ {"NX"}

SegmentFlags(p_flags) ==
    Truncate32({"P"} \cup (IF "W" \in p_flags THEN {"W"} ELSE {})
                     \cup (IF "X" \notin p_flags THEN {"NX"} ELSE {})
                     \cup (IF "R" \in p_flags THEN {"U"} ELSE {}))

\* The loop of elf_load from program header i on (load_bias is 0: the
\* process manager passes base_addr 0).  SegmentMapped and SegmentAllocated
\* are the rest of one iteration, after vmm_map_pages and after alloc_pages.
RECURSIVE LoadSegments(_, _, _)
SegmentMapped(m, p, i, phys, page_count) ==
    IF ~m.ret
    THEN [s |-> process_free_pages(m.s, phys, page_count), ret |-> FALSE]
    ELSE LoadSegments(m.s, p, i + 1)

SegmentAllocated(a, p, i, ph, page_count) ==
    IF a.ret = 0
    THEN [s |-> a.s, ret |-> FALSE]
    ELSE SegmentMapped(
           vmm_map_pages(
             IF Len(a.s.process_table[p].elf_ctx.loaded_segments) < 16
             THEN [a.s EXCEPT !.process_table[p].elf_ctx.loaded_segments =
                      Append(@, [vaddr |-> a.ret, size |-> page_count])]
             ELSE a.s,
             ph.p_vaddr, a.ret, page_count, SegmentFlags(ph.p_flags)),
           p, i, a.ret, page_count)

LoadSegments(s, p, i) ==
    LET h == ElfFile[s.process_table[p].elf_ctx.header]
    IN  IF i > h.e_phnum
        THEN [s |-> s, ret |-> TRUE]
        ELSE IF h.ph[i].p_type # PT_LOAD
        THEN LoadSegments(s, p, i + 1)
        ELSE SegmentAllocated(process_alloc_pages(s, PagesFor(h.ph[i].p_memsz)),
                              p, i, h.ph[i], PagesFor(h.ph[i].p_memsz))

\* The end of elf_load: r is the outcome of the loop.
ElfLoaded(r, p) ==
    IF ~r.ret
    THEN r
    ELSE [s |-> [r.s EXCEPT !.process_table[p].elf_ctx.entry_point =
                    ElfFile[r.s.process_table[p].elf_ctx.header].e_entry],
          ret |-> TRUE]

elf_load(s, p) ==
    IF s.process_table[p].elf_ctx.program_headers = 0
    THEN [s |-> s, ret |-> FALSE]
    ELSE ElfLoaded(LoadSegments(s, p, 1), p)

elf_get_entry_point(s, p) ==
    LET ctx == s.process_table[p].elf_ctx
    IN  IF ctx.entry_point # 0 THEN ctx.entry_point ELSE ElfFile[ctx.header].e_entry


(***************************************************************************)
(* Process manager and scheduler, process.c.                               *)
(***************************************************************************)
\* Slot of the idle PCB, process.c:141.
idle_process == 0

\* UINT64_MAX, the idle quantum (process.c:152), kept symbolic.
UINT64_MAX == 0 - 2

\* a >= q for a 64-bit difference a below UINT64_MAX and a quantum q.
Ge64(a, q) == IF q = UINT64_MAX THEN FALSE ELSE a >= q

ZeroContext == [rip |-> 0, rsp |-> 0, rflags_if |-> FALSE, cr3 |-> 0]

\* A process_t after memset(process, 0, sizeof(process_t)).
ZeroProcess ==
    [pid |-> 0, state |-> STATE_NEW, exit_code |-> 0, page_table |-> 0,
     stack_top |-> 0, stack_size |-> 0, context |-> ZeroContext,
     elf_ctx |-> ZeroElfCtx, entry_point |-> 0, start_time |-> 0, cpu_time |-> 0,
     last_schedule |-> 0, quantum |-> 0, next |-> NULL, prev |-> NULL]

\* add_to_ready_queue
add_to_ready_queue(s, p) ==
    IF p = NULL THEN s
    ELSE LET s1 == [s EXCEPT !.process_table[p].next = NULL]
             s2 == IF s1.ready_queue_head = NULL
                   THEN [s1 EXCEPT !.ready_queue_head = p, !.ready_queue_tail = p,
                                   !.process_table[p].prev = NULL]
                   ELSE LET s3 == [s1 EXCEPT
                                     !.process_table[s1.ready_queue_tail].next = p]
                        IN  [s3 EXCEPT !.process_table[p].prev = s1.ready_queue_tail,
                                       !.ready_queue_tail = p]
         IN  [s2 EXCEPT !.process_table[p].state = STATE_READY]

\* remove_from_ready_queue
remove_from_ready_queue(s, p) ==
    IF p = NULL THEN s
    ELSE
    LET pr == s.process_table[p]
        s1 ==
          IF p = s.ready_queue_head
          THEN LET a == [s EXCEPT !.ready_queue_head = pr.next]
               IN  IF a.ready_queue_head # NULL
                   THEN [a EXCEPT !.process_table[a.ready_queue_head].prev = NULL]
                   ELSE [a EXCEPT !.ready_queue_tail = NULL]
          ELSE IF p = s.ready_queue_tail
          THEN LET a == [s EXCEPT !.ready_queue_tail = pr.prev]
               IN  IF a.ready_queue_tail # NULL
                   THEN [a EXCEPT !.process_table[a.ready_queue_tail].next = NULL]
                   ELSE [a EXCEPT !.ready_queue_head = NULL]
          ELSE LET a == IF pr.prev # NULL
                        THEN [s EXCEPT !.process_table[pr.prev].next = pr.next]
                        ELSE s
               IN  IF pr.next # NULL
                   THEN [a EXCEPT !.process_table[pr.next].prev = pr.prev]
                   ELSE a
    IN  [s1 EXCEPT !.process_table[p].next = NULL, !.process_table[p].prev = NULL]

\* add_to_blocked_queue
add_to_blocked_queue(s, p) ==
    IF p = NULL THEN s
    ELSE [s EXCEPT !.process_table[p].next = s.blocked_queue_head,
                   !.blocked_queue_head = p,
                   !.process_table[p].state = STATE_BLOCKED]

\* The loop of remove_from_blocked_queue at `current`, with `prev` behind
\* it.  A list that closes on itself without holding the process keeps the
\* loop running for ever: after more steps than there are PCBs it cannot end.
RECURSIVE BlockedScan(_, _, _, _, _)
BlockedScan(s, p, current, prev, steps) ==
    IF current = NULL
    THEN s
    ELSE IF steps > Cardinality(DOMAIN s.process_table)
    THEN [s EXCEPT !.hung = TRUE]
    ELSE IF current = p
    THEN LET s1 == IF prev # NULL
                   THEN [s EXCEPT !.process_table[prev].next =
                                     s.process_table[current].next]
                   ELSE [s EXCEPT !.blocked_queue_head =
                                     s.process_table[current].next]
         IN  [s1 EXCEPT !.process_table[p].next = NULL]
    ELSE BlockedScan(s, p, s.process_table[current].next, current, steps + 1)

remove_from_blocked_queue(s, p) ==
    IF p = NULL THEN s ELSE BlockedScan(s, p, s.blocked_queue_head, NULL, 0)

\* process_switch_context (assembly, outside the sources): the outgoing
\* RFLAGS are saved into the old context and those of the new one loaded.
process_switch_context(s, old, new) ==
    LET s1 == [s EXCEPT !.process_table[old].context.rflags_if = s.interrupts]
    IN  [s1 EXCEPT !.interrupts = s1.process_table[new].context.rflags_if]

\* process_restore_context: the register block is reloaded with the stack
\* pointer and the operand register overwritten midway, and popfq takes the
\* quadword at offset 128 (the rip field): the interrupt flag that results,
\* rf, is not determined by the C source.
process_restore_context(s, new, rf) == [s EXCEPT !.interrupts = rf]

\* context_switch
context_switch(s, next, rf) ==
    IF next = NULL \/ next = s.current_process
    THEN s
    ELSE
    LET prev == s.current_process
        s1 == [s EXCEPT !.current_process = next, !.switched = TRUE]
        s2 == IF prev # NULL /\ s1.process_table[prev].state = STATE_RUNNING
              THEN [s1 EXCEPT !.process_table[prev].state = STATE_READY]
              ELSE s1
        s3 == [s2 EXCEPT !.process_table[next].state = STATE_RUNNING,
                         !.process_table[next].last_schedule =
                             s2.process_table[next].cpu_time]
        s4 == vmm_switch_address_space(s3, s3.process_table[next].page_table)
    IN  IF prev # NULL
        THEN process_switch_context(s4, prev, next)
        ELSE process_restore_context(s4, next, rf)

\* schedule_next
schedule_next(s, rf) ==
    LET s0 == [s EXCEPT !.interrupts = FALSE, !.sched = TRUE]
    IN  IF s0.ready_queue_head # NULL
        THEN LET next == s0.ready_queue_head
                 s1 == [s0 EXCEPT !.ready_queue_head = s0.process_table[next].next]
                 s2 == IF s1.ready_queue_head # NULL
                       THEN [s1 EXCEPT !.process_table[s1.ready_queue_head].prev = NULL]
                       ELSE [s1 EXCEPT !.ready_queue_tail = NULL]
                 s3 == [s2 EXCEPT !.process_table[next].next = NULL,
                                  !.process_table[next].prev = NULL]
             IN  context_switch(s3, next, rf)
        ELSE context_switch(s0, idle_process, rf)

\* process_register_kernel_idle, on the state vmm_init and pmm_init leave.
process_register_kernel_idle(s) ==
    LET idle == [ZeroProcess EXCEPT
                    !.pid = 0, !.state = STATE_READY,
                    !.context.cr3 = vmm_get_current_address_space(s),
                    !.quantum = UINT64_MAX]
    IN  [s EXCEPT !.process_table[0] = idle, !.current_process = 0]

\* timer_callback
timer_callback(s, rf) ==
    IF ~s.interrupts
    THEN s
    ELSE
    LET cur == s.current_process
    IN  IF cur # NULL /\ s.process_table[cur].state = STATE_RUNNING
        THEN LET s1 == [s EXCEPT !.process_table[cur].cpu_time = @ + 1]
                 pr == s1.process_table[cur]
             IN  IF Ge64(pr.cpu_time - pr.last_schedule, pr.quantum)
                 THEN LET s2 == IF cur # idle_process
                                THEN add_to_ready_queue(
                                       [s1 EXCEPT !.process_table[cur].state =
                                                     STATE_READY], cur)
                                ELSE s1
                      IN  schedule_next(s2, rf)
                 ELSE s1
        ELSE schedule_next(s, rf)

\* Width of the PID counter in bits (uint32_t next_pid, scaled down).
PidBits == 4

PidModulus == 2 ^ PidBits

\* The increment alone, without the step over 0.
pid_increment(s) ==
    [s |-> [s EXCEPT !.next_pid = (s.next_pid + 1) % PidModulus], ret |-> s.next_pid]

\* allocate_pid
allocate_pid(s) ==
    LET pid == s.next_pid
        n == (s.next_pid + 1) % PidModulus
    IN  [s |-> [s EXCEPT !.next_pid = IF n = 0 THEN 1 ELSE n], ret |-> pid]


\* PROCESS_MAX_COUNT, process.h:10, scaled to the model: the number of
\* entries process_table has.
PROCESS_MAX_COUNT(s) == Cardinality(DOMAIN s.process_table)

\* PROCESS_DEFAULT_STACK_SIZE, process.h:13: 2 MB.
PROCESS_DEFAULT_STACK_SIZE == 2097152

\* create_process_address_space
create_process_address_space(s) == vmm_create_address_space(s)

\* create_process_stack after the mapping loop: m is the loop's outcome,
\* stack_phys the frames, old_cr3 the address space to return to.
StackMapped(m, stack_phys, page_count, old_cr3) ==
    IF m.failed < page_count
    THEN [s |-> pmm_free_pages(
                  vmm_switch_address_space(
                    UnmapRun(m.s, VaOfPage(StackBasePage - page_count + 1), 1, m.failed),
                    old_cr3),
                  stack_phys, page_count),
          ret |-> 0]
    ELSE [s |-> vmm_switch_address_space(
                  vmm_map_page(m.s, VaOfPage(StackBasePage - page_count),
                               0, {"P", "NX"}).s,
                  old_cr3),
          ret |-> StackBasePage + 1]

\* create_process_stack after pmm_alloc_pages: a is what it gave.
StackAllocated(a, page_count, page_table) ==
    IF a.ret = 0
    THEN [s |-> a.s, ret |-> 0]
    ELSE StackMapped(
           MapRun(vmm_switch_address_space(a.s, page_table),
                  VaOfPage(StackBasePage - page_count + 1), a.ret,
                  {"P", "W", "U"}, 1, 0, page_count),
           a.ret, page_count, vmm_get_current_address_space(a.s))

\* create_process_stack: the page number of the stack top, or 0.
create_process_stack(s, stack_size, page_table) ==
    StackAllocated(pmm_alloc_pages(s, PagesFor(stack_size)), PagesFor(stack_size),
                   page_table)

\* init_process_context: rflags 0x202 has IF set.
init_process_context(s, p, entry, stack) ==
    [s EXCEPT !.process_table[p].context =
        [rip |-> entry, rsp |-> stack, rflags_if |-> TRUE,
         cr3 |-> s.process_table[p].page_table]]

\* The slot the search loop of process_create ends on, or NULL.
FindFreeSlot(s) ==
    LET free == {i \in 1 .. (PROCESS_MAX_COUNT(s) - 1) :
                    s.process_table[i].state = STATE_TERMINATED
                    \/ s.process_table[i].pid = 0}
    IN  IF free = {} THEN NULL ELSE Min(free)

\* process_create, lines 411-434: el is the outcome of elf_load.
CreateLoaded(el, p, page_table, old_cr3) ==
    IF ~el.ret
    THEN [s |-> [vmm_delete_address_space(
                   elf_cleanup(vmm_switch_address_space(el.s, old_cr3), p),
                   page_table)
                   EXCEPT !.process_table[p].pid = 0],
          ret |-> 0]
    ELSE [s |-> [add_to_ready_queue(
                   [vmm_switch_address_space(
                      init_process_context(el.s, p, elf_get_entry_point(el.s, p),
                                           el.s.process_table[p].stack_top),
                      old_cr3)
                      EXCEPT !.process_table[p].entry_point =
                                 elf_get_entry_point(el.s, p),
                             !.process_table[p].state = STATE_READY],
                   p)
                   EXCEPT !.process_table[p].start_time = el.s.timer_tick_count],
          ret |-> el.s.process_table[p].pid]

\* process_create, lines 377-409: ei is the outcome of elf_init.
CreateElfInit(ei, p, page_table) ==
    IF ~ei.ret
    THEN [s |-> [vmm_delete_address_space(ei.s, page_table)
                   EXCEPT !.process_table[p].pid = 0],
          ret |-> 0]
    ELSE CreateLoaded(elf_load(vmm_switch_address_space(ei.s, page_table), p),
                      p, page_table, vmm_get_current_address_space(ei.s))

\* process_create, lines 364-387: st is the outcome of create_process_stack.
CreateStack(st, p, page_table, stack_size, file) ==
    IF st.ret = 0
    THEN [s |-> [vmm_delete_address_space(st.s, page_table)
                   EXCEPT !.process_table[p].pid = 0,
                          !.process_table[p].stack_top = 0,
                          !.process_table[p].stack_size = stack_size],
          ret |-> 0]
    ELSE CreateElfInit(
           elf_init([st.s EXCEPT !.process_table[p].stack_top = st.ret,
                                 !.process_table[p].stack_size = stack_size],
                    p, file),
           p, page_table)

\* process_create, lines 356-366: as is the outcome of
\* create_process_address_space.
CreateSpace(as, p, stack_size, file) ==
    IF as.ret = 0
    THEN [s |-> as.s, ret |-> 0]
    ELSE CreateStack(
           create_process_stack(
             [as.s EXCEPT !.process_table[p].page_table = as.ret],
             stack_size, as.ret),
           p, as.ret, stack_size, file)

\* process_create, lines 338-357: pa is the outcome of allocate_pid on the
\* cleared slot p.
CreateSlot(pa, p, file, params) ==
    CreateSpace(
      create_process_address_space(
        [pa.s EXCEPT !.process_table[p].pid = pa.ret,
                     !.process_table[p].state = STATE_NEW,
                     !.process_table[p].quantum =
                         IF params.time_quantum # 0 THEN params.time_quantum
                         ELSE DEFAULT_TIME_QUANTUM]),
      p,
      IF params.stack_size # 0 THEN params.stack_size ELSE PROCESS_DEFAULT_STACK_SIZE,
      file)

\* process_create, lines 322-339: p is the slot the search ends on.
CreateFound(s, p, file, params) ==
    IF p = NULL
    THEN [s |-> s, ret |-> 0]
    ELSE CreateSlot(allocate_pid([s EXCEPT !.process_table[p] = ZeroProcess,
                                           !.slot = p]),
                    p, file, params)

\* process_create, for the buffer named `file` and the parameters
\* params.stack_size and params.time_quantum.
process_create(s, file, params) ==
    IF file = NoElf
    THEN [s |-> s, ret |-> 0]
    ELSE IF ~elf_is_valid(ElfFile[file])
    THEN [s |-> s, ret |-> 0]
    ELSE CreateFound(s, FindFreeSlot(s), file, params)

\* process_get_by_id: the slot, or NULL.  The PID is used as the index.
process_get_by_id(s, pid) ==
    IF pid >= PROCESS_MAX_COUNT(s)
    THEN NULL
    ELSE IF s.process_table[pid].pid = pid THEN pid ELSE NULL

\* free_process_resources
free_process_resources(s, p) ==
    LET s1 == elf_cleanup(s, p)
    IN  IF s1.process_table[p].page_table # 0
        THEN [vmm_delete_address_space(s1, s1.process_table[p].page_table)
                 EXCEPT !.process_table[p].page_table = 0]
        ELSE s1

\* process_terminate
process_terminate(s, pid, exit_code, rf) ==
    IF pid = 0
    THEN [s |-> s, ret |-> FALSE]
    ELSE
    LET p == process_get_by_id(s, pid)
    IN  IF p = NULL
        THEN [s |-> s, ret |-> FALSE]
        ELSE
    LET s1 == IF s.process_table[p].state = STATE_READY
              THEN remove_from_ready_queue(s, p)
              ELSE IF s.process_table[p].state = STATE_BLOCKED
              THEN remove_from_blocked_queue(s, p)
              ELSE s
    IN  IF s1.hung
        THEN [s |-> s1, ret |-> FALSE]
        ELSE
    LET s2 == [s1 EXCEPT !.process_table[p].exit_code = exit_code,
                         !.process_table[p].state = STATE_TERMINATED]
        s3 == free_process_resources(s2, p)
    IN  IF s3.current_process = p
        THEN [s |-> schedule_next([s3 EXCEPT !.current_process = NULL], rf),
              ret |-> TRUE]
        ELSE [s |-> s3, ret |-> TRUE]

\* process_yield
process_yield(s, rf) ==
    LET s0 == [s EXCEPT !.interrupts = FALSE]
        cur == s0.current_process
        s1 == IF cur # NULL
              THEN add_to_ready_queue(
                     [s0 EXCEPT !.process_table[cur].state = STATE_READY], cur)
              ELSE s0
    IN  schedule_next(s1, rf)

\* process_block
process_block(s, state, rf) ==
    IF s.current_process = NULL \/ state = STATE_RUNNING
    THEN s
    ELSE LET cur == s.current_process
             s0 == [s EXCEPT !.interrupts = FALSE]
             s1 == add_to_blocked_queue(
                     [s0 EXCEPT !.process_table[cur].state = state], cur)
         IN  schedule_next(s1, rf)

\* process_unblock
process_unblock(s, pid) ==
    LET p == process_get_by_id(s, pid)
    IN  IF p = NULL
        THEN [s |-> s, ret |-> FALSE]
        ELSE IF s.process_table[p].state # STATE_BLOCKED
        THEN [s |-> s, ret |-> FALSE]
        ELSE LET s1 == remove_from_blocked_queue(s, p)
             IN  IF s1.hung
                 THEN [s |-> s1, ret |-> FALSE]
                 ELSE [s |-> add_to_ready_queue(
                               [s1 EXCEPT !.process_table[p].state = STATE_READY], p),
                       ret |-> TRUE]

\* timer_irq_handler with the scheduler's callback due on every tick
\* (interval 1 ms at the 1000 Hz of main.c:184).
timer_irq_handler(s, rf) ==
    timer_callback([s EXCEPT !.timer_tick_count = @ + 1], rf)


(***************************************************************************)
(* Interrupt controller (pic.c), IRQ layer (irq.c), timer (timer.c) and    *)
(* spinlock (spinlock.c).  A mask is the set of its bits that are set; a   *)
(* handler or callback is a name, NoHandler the null pointer.              *)
(***************************************************************************)
NoHandler == "NULL"

\* An irq_handler_entry_t and a timer_callback_entry_t of a zeroed table.
ZeroIrqHandler == [handler |-> NoHandler, context |-> 0, active |-> FALSE]

ZeroTimerCallback ==
    [callback |-> NoHandler, context |-> 0, interval_ms |-> 0, next_tick |-> 0,
     active |-> FALSE]

\* The entry timer_init registers for IRQ 0 (timer.c:48).
TimerIrqEntry == [handler |-> "timer_irq_handler", context |-> 0, active |-> TRUE]

\* No timer_sleep_ms is in progress.
NoSleep ==
    [active |-> FALSE, milliseconds |-> 0, current_ticks |-> 0, target_ticks |-> 0]

\* timer_set_frequency: a frequency out of range is replaced by 1000 Hz;
\* ret is the reload value the two data bytes program into channel 0.
timer_set_frequency(s, frequency_hz) ==
    LET f == IF frequency_hz < 19 \/ frequency_hz > PIT_BASE_FREQUENCY
             THEN 1000 ELSE frequency_hz
        divisor == PIT_BASE_FREQUENCY \div f
    IN  [s |-> [s EXCEPT !.timer_frequency = f],
         ret |-> (divisor % 256) + 256 * ((divisor \div 256) % 256)]

\* Ticks of an interval of interval_ms, at least one (timer.c:124-125, 203-204).
TickIncrement(s, interval_ms) ==
    LET t == (interval_ms * s.timer_frequency) \div 1000
    IN  IF t = 0 THEN 1 ELSE t

\* The slots of the callback table that are not active.
InactiveSlots(s) ==
    {i \in DOMAIN s.timer_callbacks : ~s.timer_callbacks[i].active}

timer_register_callback(s, callback, context, interval_ms) ==
    IF callback = NoHandler \/ interval_ms = 0 \/ ~s.timer_initialized
    THEN [s |-> s, ret |-> FALSE]
    ELSE IF InactiveSlots(s) = {}
    THEN [s |-> s, ret |-> FALSE]
    ELSE LET i == Min(InactiveSlots(s))
         IN  [s |-> [s EXCEPT !.timer_callbacks[i] =
                         [callback |-> callback, context |-> context,
                          interval_ms |-> interval_ms,
                          next_tick |-> s.timer_tick_count
                                        + TickIncrement(s, interval_ms),
                          active |-> TRUE]],
              ret |-> TRUE]

\* The active slots that hold callback.
SlotsOf(s, callback) ==
    {i \in DOMAIN s.timer_callbacks :
        s.timer_callbacks[i].active /\ s.timer_callbacks[i].callback = callback}

timer_unregister_callback(s, callback) ==
    IF callback = NoHandler \/ ~s.timer_initialized
    THEN [s |-> s, ret |-> FALSE]
    ELSE IF SlotsOf(s, callback) = {}
    THEN [s |-> s, ret |-> FALSE]
    ELSE LET i == Min(SlotsOf(s, callback))
         IN  [s |-> [s EXCEPT !.timer_callbacks[i].active = FALSE,
                              !.timer_callbacks[i].callback = NoHandler,
                              !.timer_callbacks[i].context = 0],
              ret |-> TRUE]

\* What a registered callback does when it is called: "once" unregisters
\* itself, every other callback leaves the timer alone.
CallbackRun(s, callback) ==
    IF callback = "once" THEN timer_unregister_callback(s, callback).s ELSE s

\* The loop of timer_irq_handler from slot i on (timer.c:187-214).
RECURSIVE TimerCallbackLoop(_, _)
TimerCallbackLoop(s, i) ==
    IF i >= TimerSlots THEN s
    ELSE LET e == s.timer_callbacks[i]
         IN  IF e.active /\ s.timer_tick_count >= e.next_tick
                /\ e.callback # NoHandler
             THEN LET c == CallbackRun(s, e.callback)
                  IN  TimerCallbackLoop(
                          IF c.timer_callbacks[i].active
                          THEN [c EXCEPT !.timer_callbacks[i].next_tick =
                                   c.timer_tick_count
                                   + TickIncrement(c, e.interval_ms)]
                          ELSE c, i + 1)
             ELSE TimerCallbackLoop(s, i + 1)

\* A handler that takes the IRQ and counts no tick.
TimerIrqIdle(s) == [s |-> s, ret |-> TRUE]

\* timer_irq_handler on the callback table; it reports the IRQ handled.
TimerIrqHandler(s) ==
    [s |-> TimerCallbackLoop([s EXCEPT !.timer_tick_count = @ + 1], 0),
     ret |-> TRUE]

timer_get_ticks(s) == s.timer_tick_count

timer_get_uptime_ms(s) ==
    IF s.timer_frequency = 0 THEN 0
    ELSE (timer_get_ticks(s) * 1000) \div s.timer_frequency

\* timer_sleep_ms up to its loop: without an initialised timer the busy wait
\* ends the call, otherwise the target is computed.
SleepCall(s, milliseconds) ==
    IF ~s.timer_initialized \/ s.timer_frequency = 0 THEN s
    ELSE [s EXCEPT !.sleeper =
             [active |-> TRUE, milliseconds |-> milliseconds,
              current_ticks |-> timer_get_ticks(s),
              target_ticks |-> timer_get_ticks(s)
                  + ((milliseconds * s.timer_frequency) \div 1000)]]

\* The test of the loop of timer_sleep_ms (timer.c:248).
SleepWaits(s) == s.sleeper.active /\ timer_get_ticks(s) < s.sleeper.target_ticks

\* pic_enable_irq: the bit of the line is cleared in the mask kept in memory
\* and the mask written to the controller, if that changes the mask; only
\* then, for a line of the slave, the cascade bit of the master is cleared.
pic_enable_irq(s, irq) ==
    IF irq >= 16 THEN s
    ELSE IF irq < 8
    THEN IF irq \in s.pic_master_mask
         THEN [s EXCEPT !.pic_master_mask = @ \ {irq},
                        !.pic_imr.master = s.pic_master_mask \ {irq}]
         ELSE s
    ELSE IF (irq - 8) \in s.pic_slave_mask
    THEN LET s1 == [s EXCEPT !.pic_slave_mask = @ \ {irq - 8},
                             !.pic_imr.slave = s.pic_slave_mask \ {irq - 8}]
         IN  IF 2 \in s1.pic_master_mask
             THEN [s1 EXCEPT !.pic_master_mask = @ \ {2},
                             !.pic_imr.master = s1.pic_master_mask \ {2}]
             ELSE s1
    ELSE s

pic_disable_irq(s, irq) ==
    IF irq >= 16 THEN s
    ELSE IF irq < 8
    THEN IF irq \notin s.pic_master_mask
         THEN [s EXCEPT !.pic_master_mask = @ \cup {irq},
                        !.pic_imr.master = s.pic_master_mask \cup {irq}]
         ELSE s
    ELSE IF (irq - 8) \notin s.pic_slave_mask
    THEN [s EXCEPT !.pic_slave_mask = @ \cup {irq - 8},
                   !.pic_imr.slave = s.pic_slave_mask \cup {irq - 8}]
    ELSE s

\* An EOI written to the master's command port and to no other.
eoi_master_only(irq) == <<"master">>

\* pic_send_eoi: the command ports written, in order.
pic_send_eoi(irq) ==
    IF irq >= 8 THEN <<"slave", "master">> ELSE <<"master">>

irq_enable(s, irq) ==
    IF irq >= 16 THEN s
    ELSE [pic_enable_irq(s, irq) EXCEPT !.irq_enabled_mask = @ \cup {irq}]

irq_disable(s, irq) ==
    IF irq >= 16 THEN s
    ELSE [pic_disable_irq(s, irq) EXCEPT !.irq_enabled_mask = @ \ {irq}]

\* The slots of the line that are active.
ActiveSlots(s, irq) ==
    {i \in DOMAIN s.irq_handlers[irq] : s.irq_handlers[irq][i].active}

\* irq_register_handler; slot is the slot taken, NULL when none was.
irq_register_handler(s, irq, handler, context) ==
    IF irq >= 16 \/ handler = NoHandler
    THEN [s |-> s, ret |-> FALSE, slot |-> NULL]
    ELSE IF ActiveSlots(s, irq) = DOMAIN s.irq_handlers[irq]
    THEN [s |-> s, ret |-> FALSE, slot |-> NULL]
    ELSE LET i == Min(DOMAIN s.irq_handlers[irq] \ ActiveSlots(s, irq))
             s1 == [s EXCEPT !.irq_handlers[irq][i] =
                       [handler |-> handler, context |-> context, active |-> TRUE]]
         IN  [s |-> IF i = 0 THEN irq_enable(s1, irq) ELSE s1,
              ret |-> TRUE, slot |-> i]

\* The active slots of the line that hold handler.
HandlerSlots(s, irq, handler) ==
    {i \in ActiveSlots(s, irq) : s.irq_handlers[irq][i].handler = handler}

\* irq_unregister_handler; slot is the slot cleared, NULL when none was.
irq_unregister_handler(s, irq, handler) ==
    IF irq >= 16 \/ handler = NoHandler
    THEN [s |-> s, ret |-> FALSE, slot |-> NULL]
    ELSE LET found == HandlerSlots(s, irq, handler) # {}
             i == IF found THEN Min(HandlerSlots(s, irq, handler)) ELSE NULL
             s1 == IF found
                   THEN [s EXCEPT !.irq_handlers[irq][i] = ZeroIrqHandler]
                   ELSE s
         IN  [s |-> IF ActiveSlots(s1, irq) = {} THEN irq_disable(s1, irq) ELSE s1,
              ret |-> found, slot |-> i]

\* What a handler does when irq_dispatch calls it: timer_irq_handler is the
\* handler of timer.c, "a" reports the IRQ handled and "n" does not, and
\* neither of the two touches the kernel's state.
HandlerRun(s, handler) ==
    IF handler = "timer_irq_handler" THEN TimerIrqHandler(s)
    ELSE [s |-> s, ret |-> handler = "a"]

\* The loop of irq_dispatch from slot i on (irq.c:239-245): d holds the
\* state, the slots called so far and whether a handler reported success.
RECURSIVE HandlerLoop(_, _, _)
HandlerLoop(d, irq, i) ==
    IF i >= IrqSlots THEN d
    ELSE LET e == d.s.irq_handlers[irq][i]
         IN  IF e.active /\ e.handler # NoHandler
             THEN LET r == HandlerRun(d.s, e.handler)
                  IN  HandlerLoop([s |-> r.s, called |-> Append(d.called, i),
                                   handled |-> d.handled \/ r.ret], irq, i + 1)
             ELSE HandlerLoop(d, irq, i + 1)

\* irq_is_spurious: in_service is the bit of the line in the in-service
\* register pic_get_isr reads.
irq_is_spurious(irq, in_service) == irq \in {7, 15} /\ ~in_service

\* irq_handle_spurious: the command ports an EOI is written to.
irq_handle_spurious(irq) == IF irq = 15 THEN <<"master">> ELSE <<>>

\* The end of irq_dispatch, d being what the loop over the handlers left
\* (irq.c:248-265).
DispatchEnd(d, irq, in_service) ==
    IF ~d.handled /\ irq \in {7, 15} /\ ~in_service
    THEN [s |-> d.s, called |-> d.called, handled |-> d.handled, spurious |-> TRUE,
          eoi |-> IF irq = 15 THEN <<"master">> ELSE <<>>]
    ELSE [s |-> d.s, called |-> d.called, handled |-> d.handled, spurious |-> FALSE,
          eoi |-> pic_send_eoi(irq)]

\* irq_dispatch: the state it leaves, the slots whose handlers were called,
\* in order, whether the IRQ was handled, whether it was counted spurious and
\* the EOI writes, in order.
irq_dispatch(s, irq, in_service) ==
    IF irq >= 16
    THEN [s |-> s, called |-> <<>>, handled |-> FALSE, spurious |-> FALSE, eoi |-> <<>>]
    ELSE IF irq_is_spurious(irq, in_service)
    THEN [s |-> s, called |-> <<>>, handled |-> FALSE, spurious |-> TRUE,
          eoi |-> irq_handle_spurious(irq)]
    ELSE DispatchEnd(HandlerLoop([s |-> s, called |-> <<>>, handled |-> FALSE], irq, 0),
                     irq, in_service)


\* x & flag is not zero, flag being a power of two.
HasFlag(x, flag) == (x \div flag) % 2 = 1

\* spinlock_init_flags: the flags go to the tracking entry, not to the lock.
spinlock_init_flags(s, flags) ==
    [s EXCEPT !.spinlock = [value |-> 0, owner |-> 0, flags |-> flags]]

\* spinlock_acquire called from return address ra.  The test for an
\* IRQ-safe lock reads the owner field; on a lock that is held the caller
\* spins, and on this one CPU nothing can release the lock any more.
spinlock_acquire(s, ra) ==
    LET s1 == IF HasFlag(s.spinlock.owner, SPINLOCK_FLAG_IRQSAFE) /\ s.interrupts
              THEN [s EXCEPT !.interrupts = FALSE]
              ELSE s
    IN  IF s1.spinlock.value # 0
        THEN [s1 EXCEPT !.hung = TRUE]
        ELSE [s1 EXCEPT !.spinlock.value = 1, !.spinlock.owner = ra]

spinlock_try_acquire(s, ra) ==
    IF s.spinlock.value = 0
    THEN [s |-> [s EXCEPT !.spinlock.value = 1, !.spinlock.owner = ra], ret |-> TRUE]
    ELSE [s |-> s, ret |-> FALSE]

\* spinlock_release: the owner is cleared before it is tested.
spinlock_release(s) ==
    LET s1 == [s EXCEPT !.spinlock.owner = 0, !.spinlock.value = 0]
    IN  IF HasFlag(s1.spinlock.owner, SPINLOCK_FLAG_IRQSAFE)
        THEN [s1 EXCEPT !.interrupts = TRUE]
        ELSE s1

(***************************************************************************)
(* The kernel as a state machine: the state after pmm_init, vmm_init,      *)
(* timer_init, process_init and process_register_kernel_idle, and one      *)
(* action per entry point of the process manager and per timer interrupt.  *)
(***************************************************************************)
\* params.stack_size values: 0 selects PROCESS_DEFAULT_STACK_SIZE.
StackSizes == {0, PAGE_SIZE_4K}

\* params.time_quantum values: 0 selects DEFAULT_TIME_QUANTUM.
Quanta == {0, 1}

ExitCodes == {3}

Pids == 0 .. MaxPid

\* The interrupt flag process_restore_context may leave: the function runs
\* only when context_switch finds no previous process.
RestoredIF == IF current_process = NULL THEN BOOLEAN ELSE {FALSE}

\* What the last call was: its name, the PID process_create returned, the
\* boolean the other calls returned, the PID a successful call was given,
\* whether the buffer given to process_create passes the loader's own
\* validation, whether schedule_next ran and whether context_switch switched,
\* the PCB slot process_create took and the number of free frames before it,
\* the addresses given to vmm_map_page or vmm_unmap_page, the successful
\* mappings (address, frame) not unmapped since, the address spaces
\* vmm_create_address_space returned that were not deleted since, and the
\* numbers of vmm_map_page and vmm_create_address_space calls so far, and
\* for each PCB slot the number of timer ticks that arrived while it was
\* the current process, the state given to process_block, the size and area
\* of a vmm_allocate or vmm_free call, the frames a successful
\* vmm_allocate mapped, and what vmm_is_mapped, vmm_get_physical_address and
\* pmm_is_page_free answered before a vmm_map_page call and whether the walk
\* found its address unmapped, and the address space of the last
\* vmm_create_address_space while nothing but switches and calls of
\* vmm_map_page and vmm_unmap_page on its lower half followed (0 otherwise),
\* and whether a pmm_free_pages call gave back what the pmm_alloc_pages call
\* just before it returned, or a pmm_alloc_pages call asked for as much as
\* such a pmm_free_pages call just before it gave back, and of a timer
\* call the frequency, interval or sleep time and the callback given, the
\* callback table before the call, the uptime when timer_sleep_ms was
\* called and the ticks that arrived until it returned, and of an IRQ call
\* the line and the handler given, the slot taken or cleared, the handler
\* table of the line and the mask registers before the call, for each line
\* its active slots in the order they were registered in, whether
\* irq_disable was called so far, and of a dispatch the
\* in-service bit read, the slots called in order, whether the IRQ was
\* handled or counted spurious, and the EOI writes in order, and the
\* interrupt flag before the last acquisition of the spinlock.
BootOrder == [l \in IrqLines |-> IF l = 0 THEN <<0>> ELSE <<>>]

NoOp == [op |-> "init", ret |-> 0, ok |-> FALSE, pid |-> 0, valid |-> FALSE,
         sched |-> FALSE, switched |-> FALSE, slot |-> NULL, free_before |-> 0,
         va |-> NullVA, phys |-> 0, live |-> {}, spaces |-> {}, maps |-> 0, creates |-> 0,
         ran |-> [i \in 0 .. (MaxProc - 1) |-> 0], arg |-> STATE_RUNNING,
         size |-> 0, area |-> "kernel", took |-> {}, obs |-> <<>>, pbit |-> FALSE,
         fresh |-> FALSE, tracked |-> 0, rt |-> FALSE, hz |-> 0, ms |-> 0,
         cb |-> NoHandler, tbl |-> <<>>, up |-> 0, waited |-> 0,
         line |-> 0, masks |-> <<>>, order |-> BootOrder, explicit |-> FALSE,
         called |-> <<>>, handled |-> FALSE, spurious |-> FALSE, eoi |-> <<>>,
         isr |-> FALSE, was_if |-> FALSE]

(***************************************************************************)
(* Global descriptor table, gdt.c.  The table is the array of its entries' *)
(* fields; the address of the static tss is a link-time constant of the    *)
(* higher half, given in the pieces gdt_set_tss cuts it into.              *)
(***************************************************************************)
ZeroGdtEntry ==
    [limit_low |-> 0, base_low |-> 0, base_middle |-> 0, access |-> 0,
     granularity |-> 0, base_high |-> 0]

\* &tss: bits 0-15, 16-23, 24-31, 32-47 and 48-63.
TssAddress == [low |-> 16448, middle |-> 32, high |-> 128, upper |-> <<65535, 65535>>]

is_valid_gdt_entry(num) == num < GDT_ENTRIES + 1

gdt_set_entry(g, num, base, limit, access, gran) ==
    IF ~is_valid_gdt_entry(num)
    THEN [g |-> g, ret |-> FALSE]
    ELSE [g |-> [g EXCEPT ![num] =
                   [base_low |-> base % 65536,
                    base_middle |-> (base \div 65536) % 256,
                    base_high |-> (base \div 16777216) % 256,
                    limit_low |-> limit % 65536,
                    granularity |-> ((limit \div 65536) % 16) + (gran - (gran % 16)),
                    access |-> access]],
          ret |-> TRUE]

\* gdt_set_tss: the descriptor of the TSS takes entries num and num + 1; the
\* upper half of the base lies over limit_low and base_low of the second.
gdt_set_tss(g, num, base, limit) ==
    IF ~is_valid_gdt_entry(num) \/ ~is_valid_gdt_entry(num + 1)
    THEN [g |-> g, ret |-> FALSE]
    ELSE [g |-> [g EXCEPT ![num] =
                   [limit_low |-> limit % 65536,
                    base_low |-> base.low,
                    base_middle |-> base.middle,
                    base_high |-> base.high,
                    access |-> GDT_TSS_ACCESS,
                    granularity |-> ((limit \div 65536) % 16) + GDT_TSS_FLAGS],
                 ![num + 1] =
                   [ZeroGdtEntry EXCEPT !.limit_low = base.upper[1],
                                        !.base_low = base.upper[2]]],
          ret |-> TRUE]

\* The table gdt_init and gdt_recover build in the zeroed array; ret is
\* FALSE when one of the calls failed.
GdtBuilt ==
    LET z == [i \in 0 .. GDT_ENTRIES |-> ZeroGdtEntry]
        a == gdt_set_entry(z, 1, 0, 1048575, GDT_KERNEL_CODE_ACCESS, GDT_KERNEL_CODE_FLAGS)
        b == gdt_set_entry(a.g, 2, 0, 1048575, GDT_KERNEL_DATA_ACCESS, GDT_KERNEL_DATA_FLAGS)
        c == gdt_set_entry(b.g, 3, 0, 1048575, GDT_USER_CODE_ACCESS, GDT_USER_CODE_FLAGS)
        d == gdt_set_entry(c.g, 4, 0, 1048575, GDT_USER_DATA_ACCESS, GDT_USER_DATA_FLAGS)
        e == gdt_set_tss(d.g, 5, TssAddress, TssLimit)
    IN  [g |-> e.g, ret |-> a.ret /\ b.ret /\ c.ret /\ d.ret /\ e.ret]

\* The bytes of a gdt_entry_t, in memory order.
EntryBytes(e) ==
    <<e.limit_low % 256, e.limit_low \div 256, e.base_low % 256, e.base_low \div 256,
      e.base_middle, e.access, e.granularity, e.base_high>>

\* Bit k of a.
Bit(a, k) == (a \div (2 ^ k)) % 2

\* a ^ b for a byte b: the low eight bits of a change.
XorByte(a, b) ==
    ((a \div 256) * 256)
    + ((Bit(a, 0) + Bit(b, 0)) % 2) + 2 * ((Bit(a, 1) + Bit(b, 1)) % 2)
    + 4 * ((Bit(a, 2) + Bit(b, 2)) % 2) + 8 * ((Bit(a, 3) + Bit(b, 3)) % 2)
    + 16 * ((Bit(a, 4) + Bit(b, 4)) % 2) + 32 * ((Bit(a, 5) + Bit(b, 5)) % 2)
    + 64 * ((Bit(a, 6) + Bit(b, 6)) % 2) + 128 * ((Bit(a, 7) + Bit(b, 7)) % 2)

\* (checksum << 5) | (checksum >> 27), at a width of ChecksumBits bits.
Rotate5(c) ==
    ((c % (2 ^ (ChecksumBits - 5))) * 32) + (c \div (2 ^ (ChecksumBits - 5)))

\* The loop of calculate_gdt_checksum from byte i on.  The sets of one
\* element make TLC compute each value once.
RECURSIVE ChecksumFrom(_, _, _)
ChecksumFrom(g, i, checksum) ==
    IF i = 8 * (GDT_ENTRIES + 1)
    THEN checksum
    ELSE CHOOSE v \in {ChecksumFrom(g, i + 1, n) :
                         n \in {XorByte(r, EntryBytes(g[i \div 8])[(i % 8) + 1]) :
                                  r \in {Rotate5(checksum)}}} : TRUE

calculate_gdt_checksum(g) == ChecksumFrom(g, 0, 0)

\* validate_gdt on the statics u of gdt.c.
validate_gdt(u) ==
    /\ u.gdt[0] = ZeroGdtEntry
    /\ u.gdt[GDT_KERNEL_CODE \div 8].access = GDT_KERNEL_CODE_ACCESS
    /\ u.gdt[GDT_KERNEL_DATA \div 8].access = GDT_KERNEL_DATA_ACCESS
    /\ u.gdt[GDT_TSS \div 8].access = GDT_TSS_ACCESS
    /\ (u.initialized /\ u.gdt_checksum # 0)
       => calculate_gdt_checksum(u.gdt) = u.gdt_checksum

\* gdt_flush: cli, lgdt, the reload of the segment registers, sti.  lgdt
\* leaves the carry flag it tests as the code before it left it, clear on
\* the paths that lead here.
gdt_flush(s) == [s EXCEPT !.interrupts = TRUE]

\* gdt_reload: gdt_flush and tss_flush, whose result it drops.
gdt_reload(s) == gdt_flush(s)

gdt_backup(s) == [s EXCEPT !.gdt_c.gdt_backup_v = s.gdt_c.gdt]

gdt_restore_from_backup(s) ==
    LET s1 == [s EXCEPT !.gdt_c.gdt = s.gdt_c.gdt_backup_v]
    IN  IF ~validate_gdt(s1.gdt_c)
        THEN [s |-> s1, ret |-> FALSE]
        ELSE [s |-> gdt_reload(s1), ret |-> TRUE]

\* gdt_panic: cli; hlt.
gdt_panic(s) == [s EXCEPT !.interrupts = FALSE, !.hung = TRUE]

\* gdt_recover, lines 304-309: the exchange on recovery_in_progress.
GdtRecoverEnter(s) ==
    IF s.gdt_c.recovery_in_progress
    THEN [s |-> s, ret |-> FALSE]
    ELSE [s |-> [s EXCEPT !.gdt_c.recovery_in_progress = TRUE], ret |-> TRUE]

\* gdt_recover, lines 334-421: the table is built from scratch.  tss_ok is
\* what tss_flush returns: its flag is an output of the asm statement that
\* the statement writes only when the carry flag is set, so the value read
\* otherwise is indeterminate.
GdtRecoverScratch(s, tss_ok) ==
    LET s1 == [s EXCEPT !.gdt_c.gdt = GdtBuilt.g]
        s2 == [gdt_backup(s1) EXCEPT
                  !.gdt_c.gdt_checksum = calculate_gdt_checksum(s1.gdt_c.gdt)]
    IN  IF ~GdtBuilt.ret \/ ~validate_gdt(s1.gdt_c)
        THEN [s |-> gdt_panic([s1 EXCEPT !.gdt_c.recovery_in_progress = FALSE]),
              ret |-> FALSE]
        ELSE IF ~tss_ok
        THEN [s |-> gdt_panic([gdt_flush(s2) EXCEPT
                                  !.gdt_c.recovery_in_progress = FALSE]),
              ret |-> FALSE]
        ELSE [s |-> [gdt_flush(s2) EXCEPT !.gdt_c.initialized = TRUE,
                                          !.gdt_c.recovery_in_progress = FALSE],
              ret |-> TRUE]

\* gdt_recover, lines 324-332: r is the outcome of gdt_restore_from_backup.
GdtRecoverRestored(r, tss_ok) ==
    IF r.ret
    THEN [s |-> [r.s EXCEPT !.gdt_c.recovery_in_progress = FALSE], ret |-> TRUE]
    ELSE GdtRecoverScratch(r.s, tss_ok)

\* gdt_recover without the bound on the attempts it counts.
GdtRecoverUnbounded(s, tss_ok) ==
    GdtRecoverRestored(
      gdt_restore_from_backup([s EXCEPT !.gdt_c.recovery_attempts = @ + 1]),
      tss_ok)

\* gdt_recover, lines 311-421, after the exchange.
GdtRecoverRun(s, tss_ok) ==
    LET s1 == [s EXCEPT !.gdt_c.recovery_attempts = @ + 1]
    IN  IF s1.gdt_c.recovery_attempts > MAX_GDT_RECOVERY_ATTEMPTS
        THEN [s |-> gdt_panic([s1 EXCEPT !.gdt_c.recovery_in_progress = FALSE]),
              ret |-> FALSE]
        ELSE IF s1.gdt_c.initialized
        THEN GdtRecoverRestored(gdt_restore_from_backup(s1), tss_ok)
        ELSE GdtRecoverScratch(s1, tss_ok)

\* gdt_verify up to its call of gdt_recover; recover is TRUE when it makes
\* the call.
gdt_verify(s, tick_count) ==
    LET u == s.gdt_c
        s1 == [s EXCEPT !.gdt_c.last_verification_time = tick_count]
        s2 == [s1 EXCEPT !.gdt_c.gdt_verification_errors = @ + 1]
    IN  IF ~u.initialized \/ u.recovery_in_progress
        THEN [s |-> s, recover |-> FALSE]
        ELSE IF tick_count - u.last_verification_time < GDT_VERIFICATION_INTERVAL
        THEN [s |-> s, recover |-> FALSE]
        ELSE IF ~validate_gdt(s1.gdt_c)
        THEN [s |-> s2, recover |-> s2.gdt_c.gdt_verification_errors >= 3]
        ELSE [s |-> [s1 EXCEPT !.gdt_c.gdt_verification_errors = 0],
              recover |-> FALSE]

\* The statics of gdt.c after gdt_init (main.c:180).
GdtBoot ==
    [gdt |-> GdtBuilt.g, gdt_backup_v |-> GdtBuilt.g,
     gdt_checksum |-> calculate_gdt_checksum(GdtBuilt.g),
     initialized |-> TRUE, recovery_in_progress |-> FALSE,
     recovery_attempts |-> 0, gdt_verification_errors |-> 0,
     last_verification_time |-> 0]

ElfValid(file) == validate_elf_header(ElfFile[file]) /\ validate_elf_size(ElfFile[file])

\* The boot state: the PML4 the bootloader left in CR3 with its higher-half
\* entry, an arena of max_pages free frames, no process but idle, every IRQ
\* line masked but the timer's, and the timer running at 1000 Hz with its
\* handler registered for IRQ 0 (main.c:182-184).
Boot(mp, nx, np) ==
    [page_bitmap |-> [i \in 0 .. (mp - 1) |-> FALSE],
     max_pages |-> mp,
     pt_mem |-> (KernelPml4 :> (KernelHalf :> Entry(BootPdpt, {"P", "W"})))
                @@ (BootPdpt :> ZeroTable),
     current_pml4_phys |-> KernelPml4,
     using_nx |-> nx,
     area_used |-> [kernel |-> FALSE, user |-> FALSE],
     process_table |-> [i \in 0 .. (np - 1) |-> ZeroProcess],
     next_pid |-> 1,
     current_process |-> NULL,
     ready_queue_head |-> NULL,
     ready_queue_tail |-> NULL,
     blocked_queue_head |-> NULL,
     interrupts |-> TRUE,
     timer_tick_count |-> 0,
     timer_frequency |-> 1000,
     timer_initialized |-> TRUE,
     timer_callbacks |-> [i \in 0 .. (TimerSlots - 1) |-> ZeroTimerCallback],
     sleeper |-> NoSleep,
     irq_handlers |-> [l \in IrqLines |-> [i \in 0 .. (IrqSlots - 1) |->
                         IF l = 0 /\ i = 0 THEN TimerIrqEntry ELSE ZeroIrqHandler]],
     irq_enabled_mask |-> {0},
     pic_master_mask |-> 1 .. 7,
     pic_slave_mask |-> 0 .. 7,
     pic_imr |-> [master |-> 1 .. 7, slave |-> 0 .. 7],
     spinlock |-> [value |-> 0, owner |-> 0, flags |-> 0],
     gdt_c |-> GdtBoot,
     eoi_pending |-> {},
     hung |-> FALSE,
     sched |-> FALSE,
     switched |-> FALSE,
     slot |-> NULL]

\* The variables hold the state s and no call was made yet.
InitFrom(s) ==
    /\ page_bitmap = s.page_bitmap
    /\ max_pages = s.max_pages
    /\ pt_mem = s.pt_mem
    /\ current_pml4_phys = s.current_pml4_phys
    /\ using_nx = s.using_nx
    /\ area_used = s.area_used
    /\ process_table = s.process_table
    /\ next_pid = s.next_pid
    /\ current_process = s.current_process
    /\ ready_queue_head = s.ready_queue_head
    /\ ready_queue_tail = s.ready_queue_tail
    /\ blocked_queue_head = s.blocked_queue_head
    /\ interrupts = s.interrupts
    /\ timer_tick_count = s.timer_tick_count
    /\ timer_frequency = s.timer_frequency
    /\ timer_initialized = s.timer_initialized
    /\ timer_callbacks = s.timer_callbacks
    /\ sleeper = s.sleeper
    /\ irq_handlers = s.irq_handlers
    /\ irq_enabled_mask = s.irq_enabled_mask
    /\ pic_master_mask = s.pic_master_mask
    /\ pic_slave_mask = s.pic_slave_mask
    /\ pic_imr = s.pic_imr
    /\ spinlock = s.spinlock
    /\ gdt_c = s.gdt_c
    /\ eoi_pending = s.eoi_pending
    /\ hung = s.hung
    /\ last_op = NoOp

\* The state process_register_kernel_idle leaves on Boot(mp, nx, np).
InitWith(mp, nx, np) == InitFrom(process_register_kernel_idle(Boot(mp, nx, np)))

\* process_create called with a buffer, a stack size and a quantum from the
\* given sets, while the PID counter is at most `pids`.
CreateFrom(files, sizes, quanta, pids) ==
    /\ ~hung
    /\ next_pid <= pids
    /\ \E file \in files, ss \in sizes, q \in quanta :
          LET r == process_create(St, file, [stack_size |-> ss, time_quantum |-> q])
          IN  /\ Commit(r.s)
              /\ last_op' = [NoOp EXCEPT !.op = "create", !.ret = r.ret,
                                         !.valid = ElfValid(file),
                                         !.slot = r.s.slot,
                                         !.free_before = pmm_get_free_memory(St)]

(***************************************************************************)
(* Spec: the scheduler.  Memory is ample, every buffer is the well-formed  *)
(* executable, and all the scheduler's entry points and both timer paths   *)
(* are exercised on the idle PCB and the user PCBs.                        *)
(***************************************************************************)
Init == InitWith(SchedPages, TRUE, SchedProc)

ProcessCreate == CreateFrom({"rx"}, {PAGE_SIZE_4K}, Quanta, SchedPids)

ProcessTerminate ==
    /\ ~hung
    /\ \E pid \in Pids, code \in ExitCodes, rf \in BOOLEAN :
          LET r == process_terminate(St, pid, code, rf)
          IN  /\ Commit(r.s)
              /\ last_op' = [NoOp EXCEPT !.op = "terminate", !.ok = r.ret,
                                         !.pid = IF r.ret THEN pid ELSE 0,
                                         !.sched = r.s.sched,
                                         !.switched = r.s.switched]

ProcessYield ==
    /\ ~hung
    /\ \E rf \in RestoredIF :
          LET s == process_yield(St, rf)
          IN  /\ Commit(s)
              /\ last_op' = [NoOp EXCEPT !.op = "yield", !.sched = s.sched,
                                         !.switched = s.switched]

ProcessBlock ==
    /\ ~hung
    /\ \E state \in ProcessStates, rf \in RestoredIF :
          LET s == process_block(St, state, rf)
          IN  /\ Commit(s)
              /\ last_op' = [NoOp EXCEPT !.op = "block", !.sched = s.sched,
                                         !.switched = s.switched,
                                         !.arg = state]

ProcessUnblock ==
    /\ ~hung
    /\ \E pid \in Pids :
          LET r == process_unblock(St, pid)
          IN  /\ Commit(r.s)
              /\ last_op' = [NoOp EXCEPT !.op = "unblock", !.ok = r.ret,
                                         !.pid = IF r.ret THEN pid ELSE 0]

\* The timer interrupt as the hardware delivers it: taken only with IF set,
\* through an interrupt gate (IDT_GATE_INTERRUPT, irq.c:94-109) that clears
\* IF for the handler, and left by iretq, which restores the interrupted
\* RFLAGS unless the handler switched to another context.
TimerIrq ==
    /\ ~hung
    /\ interrupts
    /\ timer_tick_count < MaxTicks
    /\ \E rf \in RestoredIF :
          LET s == timer_irq_handler([St EXCEPT !.interrupts = FALSE], rf)
              s1 == IF s.sched THEN s ELSE [s EXCEPT !.interrupts = TRUE]
          IN  /\ Commit(s1)
              /\ last_op' = [NoOp EXCEPT !.op = "irq", !.sched = s.sched,
                                         !.switched = s.switched]

\* irq_dispatch(IRQ_TIMER) called from kernel code (irq.h:41), the
\* interrupt flag being whatever the caller runs with.
IrqDispatchTimer ==
    /\ ~hung
    /\ timer_tick_count < MaxTicks
    /\ \E rf \in RestoredIF :
          LET s == timer_irq_handler(St, rf)
          IN  /\ Commit(s)
              /\ last_op' = [NoOp EXCEPT !.op = "tick", !.sched = s.sched,
                                         !.switched = s.switched]

Next ==
    \/ ProcessCreate
    \/ ProcessTerminate
    \/ ProcessYield
    \/ ProcessBlock
    \/ ProcessUnblock
    \/ TimerIrq
    \/ IrqDispatchTimer

Spec == Init /\ [][Next]_vars


(***************************************************************************)
(* SpecMem: process creation and termination under memory pressure.  The   *)
(* arena has between MinPages and MaxPages frames, the buffers are all of  *)
(* ElfFile, and process_yield makes a created process the current one.     *)
(***************************************************************************)
InitMem == \E mp \in MinPages .. MaxPages, nx \in BOOLEAN : InitWith(mp, nx, MaxProc)

MemCreate == CreateFrom(ElfNames, StackSizes, {0}, MaxPid)

NextMem ==
    \/ MemCreate
    \/ ProcessTerminate
    \/ ProcessYield

SpecMem == InitMem /\ [][NextMem]_vars


(***************************************************************************)
(* SpecVmm: vmm_map_page and vmm_unmap_page on the kernel address space,   *)
(* for two user addresses and the base of the kernel area (hhdm_offset +   *)
(* 0x10000000, vmm.c:358).                                                 *)
(***************************************************************************)
VmmAddrs == {<<0, 0, 2, 0>>, <<0, 0, 2, 1>>, <<KernelHalf, 0, 128, 0>>}

\* Frames handed to vmm_map_page: two frames above those the PMM manages
\* in this specification.
VmmFrames == {FirstFrame + MaxPages - 1, FirstFrame + MaxPages - 2}

VmmFlagSets == {{"P", "W"}, {"P", "W", "NX"}}

InitVmm == \E nx \in BOOLEAN : InitWith(MaxPages - 2, nx, MaxProc)

VmmMapPage ==
    \E v \in VmmAddrs, f \in VmmFrames, flags \in VmmFlagSets :
        LET r == vmm_map_page(St, v, f, flags)
        IN  /\ Commit(r.s)
            /\ last_op' = [NoOp EXCEPT
                  !.op = "map", !.ok = r.ret, !.va = v, !.phys = f,
                  !.live = IF r.ret
                           THEN {m \in last_op.live : m[1] # v} \cup {<<v, f>>}
                           ELSE last_op.live]

VmmUnmapPage ==
    \E v \in VmmAddrs :
        LET r == vmm_unmap_page(St, v)
        IN  /\ Commit(r.s)
            /\ last_op' = [NoOp EXCEPT
                  !.op = "unmap", !.ok = r.ret, !.va = v,
                  !.live = {m \in last_op.live : m[1] # v}]

NextVmm ==
    \/ VmmMapPage
    \/ VmmUnmapPage

SpecVmm == InitVmm /\ [][NextVmm]_vars


(***************************************************************************)
(* SpecAs: address spaces.  vmm_create_address_space,                      *)
(* vmm_delete_address_space and vmm_switch_address_space, with             *)
(* vmm_map_page and vmm_unmap_page on whichever space is current, for two  *)
(* user addresses in one 2 MiB range, the base of the kernel area, and an  *)
(* address of the kernel half whose PML4 entry the boot tables leave       *)
(* empty.                                                                  *)
(***************************************************************************)
\* Most vmm_create_address_space calls of a behaviour.
MaxCreates == 2

AsAddrs ==
    {<<0, 0, 2, 0>>, <<0, 0, 2, 1>>, <<KernelHalf, 0, 128, 0>>,
     <<KernelHalf + 1, 0, 0, 0>>}

\* Most vmm_map_page calls of a behaviour.
MaxMaps == 2

\* Frame and flags handed to vmm_map_page: the last frame of the arena as a
\* 4 KiB page, a 2 MiB aligned frame outside the arena as a huge page.
AsMappings ==
    {<<FirstFrame + MinPages - 1, {"P", "W"}>>,
     <<2 * TableEntries, {"P", "W", "HUGE"}>>}

InitAs == InitWith(MinPages, TRUE, MaxProc)

AsCreate ==
    /\ last_op.creates < MaxCreates
    /\ LET r == vmm_create_address_space(St)
       IN  /\ Commit(r.s)
           /\ last_op' = [NoOp EXCEPT
                 !.op = "as_create", !.ret = r.ret,
                 !.free_before = pmm_get_free_memory(St), !.tracked = r.ret,
                 !.spaces = IF r.ret = 0 THEN last_op.spaces
                            ELSE last_op.spaces \cup {r.ret},
                 !.maps = last_op.maps, !.creates = last_op.creates + 1]

\* vmm_delete_address_space on a space that is not the active one.
AsDelete ==
    \E p \in last_op.spaces \ {current_pml4_phys} :
        /\ Commit(vmm_delete_address_space(St, p))
        /\ last_op' = [NoOp EXCEPT
              !.op = "as_delete", !.phys = p,
              !.free_before = last_op.free_before,
              !.spaces = last_op.spaces \ {p}, !.maps = last_op.maps,
              !.creates = last_op.creates]

AsSwitch ==
    \E p \in last_op.spaces \cup {KernelPml4} :
        /\ Commit(vmm_switch_address_space(St, p))
        /\ last_op' = [NoOp EXCEPT
              !.op = "as_switch", !.phys = p, !.spaces = last_op.spaces, !.maps = last_op.maps,
              !.free_before = last_op.free_before, !.tracked = last_op.tracked,
              !.creates = last_op.creates]

\* What vmm_is_mapped and vmm_get_physical_address answer for the addresses
\* of AsAddrs.
Observed(s) ==
    [a \in AsAddrs |-> <<vmm_is_mapped(s, a), vmm_get_physical_address(s, a)>>]

\* The tracked address space after vmm_map_page or vmm_unmap_page of v.
TrackedAfter(v) ==
    IF current_pml4_phys = last_op.tracked /\ LowerHalf(v) THEN last_op.tracked ELSE 0

AsMapPage ==
    /\ last_op.maps < MaxMaps
    /\ \E v \in AsAddrs, m \in AsMappings :
          LET r == vmm_map_page(St, v, m[1], m[2])
          IN  /\ Commit(r.s)
              /\ last_op' = [NoOp EXCEPT
                    !.op = "map", !.ok = r.ret, !.va = v, !.phys = m[1],
                    !.obs = Observed(St), !.pbit = pmm_is_page_free(St, m[1]),
                    !.fresh = (Walk(St, v).level = "none"),
                    !.free_before = last_op.free_before, !.tracked = TrackedAfter(v),
                    !.spaces = last_op.spaces, !.maps = last_op.maps + 1,
                    !.creates = last_op.creates]

AsUnmapPage ==
    \E v \in AsAddrs :
        LET r == vmm_unmap_page(St, v)
        IN  /\ Commit(r.s)
            /\ last_op' = [NoOp EXCEPT
                  !.op = "unmap", !.ok = r.ret, !.va = v,
                  !.free_before = last_op.free_before, !.tracked = TrackedAfter(v),
                  !.spaces = last_op.spaces, !.maps = last_op.maps,
              !.creates = last_op.creates]

NextAs ==
    \/ AsCreate
    \/ AsDelete
    \/ AsSwitch
    \/ AsMapPage
    \/ AsUnmapPage

SpecAs == InitAs /\ [][NextAs]_vars


(***************************************************************************)
(* SpecRR: time slicing.  Two processes of quantum 1 are created and never *)
(* yield, block or terminate; the idle PCB may yield; timer ticks arrive   *)
(* as hardware interrupts and as irq_dispatch calls from kernel code.      *)
(***************************************************************************)
\* Most timer ticks of a behaviour.
MaxRRTicks == 3

\* The user PCBs that are Ready or Running.
Runnable ==
    {i \in DOMAIN process_table :
        /\ i # idle_process
        /\ process_table[i].pid # 0
        /\ process_table[i].state \in {STATE_READY, STATE_RUNNING}}

\* The tick counts after one more tick, counted once both processes exist.
RanAfterTick ==
    IF current_process # NULL /\ Cardinality(Runnable) = MaxProc - 1
    THEN [last_op.ran EXCEPT ![current_process] = @ + 1]
    ELSE last_op.ran

InitRR == \E nx \in BOOLEAN : InitWith(SchedPages, nx, MaxProc)

RRCreate ==
    /\ ~hung
    /\ next_pid < MaxProc
    /\ LET r == process_create(St, "rx", [stack_size |-> PAGE_SIZE_4K,
                                          time_quantum |-> 1])
       IN  /\ Commit(r.s)
           /\ last_op' = [NoOp EXCEPT !.op = "create", !.ret = r.ret,
                                      !.ran = last_op.ran]

\* process_yield called by the idle loop.
RRIdleYield ==
    /\ ~hung
    /\ current_process = idle_process
    /\ \E rf \in RestoredIF :
          LET s == process_yield(St, rf)
          IN  /\ Commit(s)
              /\ last_op' = [NoOp EXCEPT !.op = "yield", !.sched = s.sched,
                                         !.switched = s.switched,
                                         !.ran = last_op.ran]

\* The timer interrupt as the hardware delivers it (see TimerIrq).
RRTimerIrq ==
    /\ ~hung
    /\ interrupts
    /\ timer_tick_count < MaxRRTicks
    /\ \E rf \in RestoredIF :
          LET s == timer_irq_handler([St EXCEPT !.interrupts = FALSE], rf)
              s1 == IF s.sched THEN s ELSE [s EXCEPT !.interrupts = TRUE]
          IN  /\ Commit(s1)
              /\ last_op' = [NoOp EXCEPT !.op = "irq", !.sched = s.sched,
                                         !.switched = s.switched,
                                         !.ran = RanAfterTick]

\* irq_dispatch(IRQ_TIMER) called from kernel code (see IrqDispatchTimer).
RRDispatchTimer ==
    /\ ~hung
    /\ timer_tick_count < MaxRRTicks
    /\ \E rf \in RestoredIF :
          LET s == timer_irq_handler(St, rf)
          IN  /\ Commit(s)
              /\ last_op' = [NoOp EXCEPT !.op = "tick", !.sched = s.sched,
                                         !.switched = s.switched,
                                         !.ran = RanAfterTick]

NextRR ==
    \/ RRCreate
    \/ RRIdleYield
    \/ RRTimerIrq
    \/ RRDispatchTimer

SpecRR == InitRR /\ [][NextRR]_vars


(***************************************************************************)
(* SpecAlloc: vmm_allocate and vmm_free on the kernel address space, for   *)
(* both areas and one or two pages, on arenas small enough for an          *)
(* allocation to fail at each of its steps.                                *)
(***************************************************************************)
\* Smallest and largest arena of this specification, in frames.
AllocMinPages == 2

AllocMaxPages == 6

\* Sizes in bytes given to vmm_allocate and vmm_free.
AllocSizes == {0, PAGE_SIZE_4K, PAGE_SIZE_4K + 1}

AllocFlags == {{"W"}, {"W", "U"}}

\* The frame the walk of the current page tables finds at virt, or 0.
LeafAt(s, virt) ==
    IF Walk(s, virt).level = "none"
    THEN 0
    ELSE TableAt(s, Walk(s, virt).frame)[Walk(s, virt).idx].addr

InitAlloc ==
    \E mp \in AllocMinPages .. AllocMaxPages : InitWith(mp, TRUE, MaxProc)

AllocDone(r, size, flags) ==
    /\ Commit(r.s)
    /\ last_op' = [NoOp EXCEPT
          !.op = "allocate", !.va = r.ret, !.size = size, !.area = AreaOf(flags),
          !.took = IF r.ret = NullVA THEN {}
                   ELSE {LeafAt(r.s, VaAdd(r.ret, i)) : i \in 0 .. (PagesFor(size) - 1)}]

VmmAllocate ==
    \E size \in AllocSizes, flags \in AllocFlags :
        AllocDone(vmm_allocate(St, size, flags), size, flags)

VmmFree ==
    \E addr \in {KernelAreaBase, UserAreaBase}, size \in AllocSizes :
        /\ Commit(vmm_free(St, addr, size))
        /\ last_op' = [NoOp EXCEPT
              !.op = "free", !.va = addr, !.size = size,
              !.area = IF AboveHhdm(addr) THEN "kernel" ELSE "user",
              !.took = last_op.took]

NextAlloc ==
    \/ VmmAllocate
    \/ VmmFree

SpecAlloc == InitAlloc /\ [][NextAlloc]_vars


(***************************************************************************)
(* SpecPmm: pmm_alloc_page and pmm_alloc_pages, and pmm_free_page and      *)
(* pmm_free_pages of any allocatable page of the arena and of the page     *)
(* after its end.                                                          *)
(***************************************************************************)
\* Frames of the arena of this specification.
PmmPages == 5

InitPmm == InitWith(PmmPages, TRUE, MaxProc)

PmmAllocDone(r) ==
    /\ Commit(r.s)
    /\ last_op' = [NoOp EXCEPT
          !.op = "pmm_alloc", !.ret = r.ret,
          !.free_before = pmm_get_free_memory(St)]

PmmAllocPage == PmmAllocDone(pmm_alloc_page(St))

PmmFreePage ==
    \E p \in FirstFrame .. (FirstFrame + max_pages) :
        /\ Commit(pmm_free_page(St, p))
        /\ last_op' = [NoOp EXCEPT
              !.op = "pmm_free", !.phys = p,
              !.free_before = last_op.free_before]

\* Largest count given to pmm_alloc_pages and pmm_free_pages.
PmmRun == 3

PmmAllocPagesDone(r, n) ==
    /\ Commit(r.s)
    /\ last_op' = [NoOp EXCEPT
          !.op = "pmm_allocs", !.ret = r.ret, !.size = n,
          !.rt = (last_op.op = "pmm_frees" /\ last_op.rt /\ last_op.size = n)]

PmmAllocPages == \E n \in 0 .. PmmRun : PmmAllocPagesDone(pmm_alloc_pages(St, n), n)

PmmFreePages ==
    \E p \in FirstFrame .. (FirstFrame + max_pages), n \in 1 .. PmmRun :
        /\ Commit(pmm_free_pages(St, p, n))
        /\ last_op' = [NoOp EXCEPT
              !.op = "pmm_frees", !.phys = p, !.size = n,
              !.rt = (/\ last_op.op = "pmm_allocs" /\ last_op.ret = p
                      /\ last_op.size = n)]

NextPmm ==
    \/ PmmAllocPage
    \/ PmmFreePage
    \/ PmmAllocPages
    \/ PmmFreePages

SpecPmm == InitPmm /\ [][NextPmm]_vars


(***************************************************************************)
(* SpecElf: elf_init, elf_load and elf_cleanup on the ELF context of a     *)
(* PCB slot that holds no process, in the kernel address space, for every  *)
(* buffer of ElfFile.                                                      *)
(***************************************************************************)
\* The PCB slot whose context the loader is given.
ElfSlot == 1

\* Smallest arena of this specification, in frames.
ElfMinPages == 2

InitElf ==
    \E mp \in ElfMinPages .. MaxPages, nx \in BOOLEAN : InitWith(mp, nx, MaxProc)

\* elf_init on a context that holds no buffer.
ElfInit ==
    /\ process_table[ElfSlot].elf_ctx.data = NoElf
    /\ \E file \in ElfNames :
          LET r == elf_init(St, ElfSlot, file)
          IN  /\ Commit(r.s)
              /\ last_op' = [NoOp EXCEPT
                    !.op = "elf_init", !.ok = r.ret, !.valid = ElfValid(file),
                    !.free_before = pmm_get_free_memory(St)]

\* elf_load right after a successful elf_init.
ElfLoad ==
    /\ last_op.op = "elf_init" /\ last_op.ok
    /\ LET r == elf_load(St, ElfSlot)
       IN  /\ Commit(r.s)
           /\ last_op' = [NoOp EXCEPT
                 !.op = "elf_load", !.ok = r.ret, !.valid = last_op.valid,
                 !.free_before = last_op.free_before,
                 !.size = Len(r.s.process_table[ElfSlot].elf_ctx.loaded_segments)]

\* elf_cleanup on a context that holds a buffer.
ElfCleanup ==
    /\ process_table[ElfSlot].elf_ctx.data # NoElf
    /\ Commit(elf_cleanup(St, ElfSlot))
    /\ last_op' = [NoOp EXCEPT
          !.op = "elf_cleanup", !.valid = last_op.valid,
          !.free_before = last_op.free_before]

NextElf ==
    \/ ElfInit
    \/ ElfLoad
    \/ ElfCleanup

SpecElf == InitElf /\ [][NextElf]_vars

(***************************************************************************)
(* The loader's size check: elf_init and elf_cleanup on the buffers whose  *)
(* header tables lie at, past and beyond the end.  The memcpy of a table   *)
(* that does not lie in the buffer reads outside it: it returns what it    *)
(* found there or it faults, which halts the kernel.                       *)
(***************************************************************************)
\* Both header tables of h lie within the buffer.
InBuffer(h) ==
    /\ h.e_phoff + h.e_phnum * h.e_phentsize <= h.size
    /\ h.e_shoff + h.e_shnum * h.e_shentsize <= h.size

OffsetFiles == OffsetNames \cup {"rx", "trunc", "nosh"}

OffsetInit ==
    /\ ~hung
    /\ process_table[ElfSlot].elf_ctx.data = NoElf
    /\ \E file \in OffsetFiles :
          LET r == elf_init(St, ElfSlot, file)
          IN  \E fault \in {FALSE} \cup {r.ret /\ ~InBuffer(ElfFile[file])} :
                 /\ Commit([r.s EXCEPT !.hung = fault])
                 /\ last_op' = [NoOp EXCEPT
                       !.op = "elf_init", !.ok = r.ret /\ ~fault,
                       !.valid = ElfValid(file), !.cb = file,
                       !.free_before = pmm_get_free_memory(St)]

OffsetCleanup ==
    /\ ~hung
    /\ process_table[ElfSlot].elf_ctx.data # NoElf
    /\ Commit(elf_cleanup(St, ElfSlot))
    /\ last_op' = [NoOp EXCEPT !.op = "elf_cleanup", !.cb = last_op.cb]

NextOffset ==
    \/ OffsetInit
    \/ OffsetCleanup

SpecOffset == InitElf /\ [][NextOffset]_vars

(***************************************************************************)
(* The timer alone: the state timer_init(1000) leaves (main.c:184), calls  *)
(* of the timer API, timer interrupts, and one caller of timer_sleep_ms,   *)
(* which makes no other call until its sleep returns.                      *)
(***************************************************************************)
\* Ticks counted.
MaxTimerTicks == 3
\* Longest interval and longest sleep asked for, in milliseconds.
MaxInterval == 1
MaxSleep == 2

\* Frequencies asked for: below the range, its ends, inside it, above it.
TimerFreqs ==
    {18, 19, 1500, PIT_BASE_FREQUENCY, PIT_BASE_FREQUENCY + 1}

TimerCallbacks == {NoHandler, "a", "once"}

\* The context pointer given with every callback.
TimerContext == 1

InitTimer == InitWith(PmmPages, TRUE, MaxProc)

TimerSetFrequency ==
    /\ ~sleeper.active
    /\ \E f \in TimerFreqs :
          LET r == timer_set_frequency(St, f)
          IN  /\ Commit(r.s)
              /\ last_op' = [NoOp EXCEPT !.op = "set_frequency", !.hz = f,
                                         !.ret = r.ret]

TimerRegisterCallback ==
    /\ ~sleeper.active
    /\ \E cb \in TimerCallbacks, ms \in 0 .. MaxInterval :
          LET r == timer_register_callback(St, cb, TimerContext, ms)
          IN  /\ Commit(r.s)
              /\ last_op' = [NoOp EXCEPT !.op = "timer_register", !.ok = r.ret,
                                         !.cb = cb, !.ms = ms,
                                         !.tbl = timer_callbacks]

TimerUnregisterCallback ==
    /\ ~sleeper.active
    /\ \E cb \in TimerCallbacks :
          LET r == timer_unregister_callback(St, cb)
          IN  /\ Commit(r.s)
              /\ last_op' = [NoOp EXCEPT !.op = "timer_unregister", !.ok = r.ret,
                                         !.cb = cb]

\* timer_sleep_ms is called.
TimerSleepMs ==
    /\ ~sleeper.active
    /\ \E ms \in 0 .. MaxSleep :
          LET s == SleepCall(St, ms)
          IN  /\ s.sleeper.target_ticks <= MaxTimerTicks
              /\ Commit(s)
              /\ last_op' = [NoOp EXCEPT !.op = "sleep_call", !.ms = ms,
                                         !.up = timer_get_uptime_ms(St)]

\* The timer interrupt arrives: with interrupts enabled, or at the `sti; hlt`
\* of a sleep that still waits.
TimerTick ==
    /\ interrupts \/ SleepWaits(St)
    /\ timer_tick_count < MaxTimerTicks
    /\ LET r == TimerIrqHandler(St)
       IN  /\ Commit([r.s EXCEPT !.interrupts = TRUE])
           /\ last_op' = [NoOp EXCEPT !.op = IF sleeper.active THEN "sleep_tick"
                                             ELSE "timer_tick",
                                      !.up = last_op.up]

\* The loop of timer_sleep_ms ends and the call returns.
TimerSleepReturn ==
    /\ sleeper.active
    /\ ~SleepWaits(St)
    /\ Commit([St EXCEPT !.sleeper = NoSleep])
    /\ last_op' = [NoOp EXCEPT !.op = "sleep_ms", !.ms = sleeper.milliseconds,
                               !.up = last_op.up,
                               !.ret = timer_get_uptime_ms(St),
                               !.waited = timer_tick_count - sleeper.current_ticks]

NextTimer ==
    \/ TimerSetFrequency
    \/ TimerRegisterCallback
    \/ TimerUnregisterCallback
    \/ TimerSleepMs
    \/ TimerTick
    \/ TimerSleepReturn

SpecTimer == InitTimer /\ [][NextTimer]_vars

(***************************************************************************)
(* The IRQ layer alone: handlers come and go on the cascade line and on    *)
(* line 15, the lines are enabled and disabled, and their IRQs are         *)
(* dispatched.  No mask-all call is made.                                  *)
(***************************************************************************)
\* Lines given to the calls; 16 is no line.
IrqInputs == {2, 15, 16}

IrqHandlers == {NoHandler, "a", "n"}

\* The context pointer given with every handler.
IrqContext == 1

\* s without its i-th element.
Without(s, i) == SubSeq(s, 1, i - 1) \o SubSeq(s, i + 1, Len(s))

\* The sequence s without the slot x.
Unlisted(s, x) ==
    IF \E i \in DOMAIN s : s[i] = x
    THEN Without(s, CHOOSE i \in DOMAIN s : s[i] = x)
    ELSE s

InitIrq == InitWith(PmmPages, TRUE, MaxProc)

IrqRegisterOn(lines) ==
    \E irq \in lines, h \in IrqHandlers :
        LET r == irq_register_handler(St, irq, h, IrqContext)
        IN  /\ Commit(r.s)
            /\ last_op' = [NoOp EXCEPT
                   !.op = "irq_register", !.ok = r.ret, !.line = irq, !.cb = h,
                   !.slot = r.slot, !.explicit = last_op.explicit,
                   !.tbl = IF irq < 16 THEN irq_handlers[irq] ELSE <<>>,
                   !.masks = pic_imr,
                   !.order = IF r.ret
                             THEN [last_op.order EXCEPT ![irq] = Append(@, r.slot)]
                             ELSE last_op.order]

IrqUnregisterOn(lines) ==
    \E irq \in lines, h \in IrqHandlers :
        LET r == irq_unregister_handler(St, irq, h)
        IN  /\ Commit(r.s)
            /\ last_op' = [NoOp EXCEPT
                   !.op = "irq_unregister", !.ok = r.ret, !.line = irq, !.cb = h,
                   !.slot = r.slot, !.explicit = last_op.explicit,
                   !.order = IF r.ret
                             THEN [last_op.order EXCEPT ![irq] = Unlisted(@, r.slot)]
                             ELSE last_op.order]

IrqDispatchOn(lines) ==
    \E irq \in lines, in_service \in BOOLEAN :
        LET r == irq_dispatch(St, irq, in_service)
        IN  /\ r.s.timer_tick_count <= MaxTimerTicks
            /\ Commit(r.s)
            /\ last_op' = [NoOp EXCEPT
                   !.op = "irq_dispatch", !.line = irq, !.isr = in_service,
                   !.called = r.called, !.handled = r.handled,
                   !.spurious = r.spurious, !.eoi = r.eoi,
                   !.explicit = last_op.explicit, !.order = last_op.order]

IrqRegisterHandler == IrqRegisterOn(IrqInputs)

IrqUnregisterHandler == IrqUnregisterOn(IrqInputs)

IrqDispatch == IrqDispatchOn(IrqInputs)

IrqEnable ==
    \E irq \in IrqInputs :
        /\ Commit(irq_enable(St, irq))
        /\ last_op' = [NoOp EXCEPT !.op = "irq_enable", !.line = irq,
                                   !.explicit = last_op.explicit,
                                   !.order = last_op.order]

IrqDisable ==
    \E irq \in IrqInputs :
        /\ Commit(irq_disable(St, irq))
        /\ last_op' = [NoOp EXCEPT !.op = "irq_disable", !.line = irq,
                                   !.explicit = TRUE, !.order = last_op.order]

NextIrq ==
    \/ IrqRegisterHandler
    \/ IrqUnregisterHandler
    \/ IrqDispatch
    \/ IrqEnable
    \/ IrqDisable

SpecIrq == InitIrq /\ [][NextIrq]_vars

(***************************************************************************)
(* One spinlock on one CPU: the lock is initialised with any of its flags  *)
(* or none while free, acquired from code at different                     *)
(* return addresses and released by its holder; the caller enables or      *)
(* disables interrupts only while it does not hold the lock, and an        *)
(* interrupt handler takes the same lock.                                  *)
(***************************************************************************)
\* Return addresses of the callers of spinlock_acquire, with bit 1 clear
\* and with bit 1 set.
LockCallers == {4, 6, 8, 10}

LockInitFlags ==
    /\ ~hung
    /\ spinlock.value = 0
    /\ \E flags \in {0, SPINLOCK_FLAG_RECURSIVE, SPINLOCK_FLAG_IRQSAFE,
                       SPINLOCK_FLAG_RECURSIVE + SPINLOCK_FLAG_IRQSAFE} :
          /\ Commit(spinlock_init_flags(St, flags))
          /\ last_op' = [NoOp EXCEPT !.op = "lock_init", !.size = flags]

LockAcquire ==
    /\ ~hung
    /\ \E ra \in LockCallers :
          /\ Commit(spinlock_acquire(St, ra))
          /\ last_op' = [NoOp EXCEPT !.op = "acquire", !.was_if = interrupts]

LockTryAcquire ==
    /\ ~hung
    /\ \E ra \in LockCallers :
          LET r == spinlock_try_acquire(St, ra)
          IN  /\ Commit(r.s)
              /\ last_op' = [NoOp EXCEPT !.op = "try_acquire", !.ok = r.ret,
                                         !.was_if = interrupts]

LockRelease ==
    /\ ~hung
    /\ spinlock.value # 0
    /\ Commit(spinlock_release(St))
    /\ last_op' = [NoOp EXCEPT !.op = "release", !.was_if = last_op.was_if]

\* idt_enable_interrupts or idt_disable_interrupts by the caller.
LockSetInterrupts ==
    /\ ~hung
    /\ spinlock.value = 0
    /\ \E f \in BOOLEAN :
          /\ Commit([St EXCEPT !.interrupts = f])
          /\ last_op' = [NoOp EXCEPT !.op = "set_if", !.ok = f]

\* An interrupt arrives whose handler acquires the lock and releases it
\* again; the gate has cleared the interrupt flag, the return restores it.
LockInterrupt ==
    /\ ~hung
    /\ interrupts
    /\ \E ra \in LockCallers :
          LET s == spinlock_acquire([St EXCEPT !.interrupts = FALSE], ra)
          IN  /\ Commit(IF s.hung THEN s
                        ELSE [spinlock_release(s) EXCEPT !.interrupts = TRUE])
              /\ last_op' = [NoOp EXCEPT !.op = "lock_irq", !.was_if = last_op.was_if]

NextLock ==
    \/ LockInterrupt
    \/ LockInitFlags
    \/ LockAcquire
    \/ LockTryAcquire
    \/ LockRelease
    \/ LockSetInterrupts

SpecLock == InitTimer /\ [][NextLock]_vars

(***************************************************************************)
(* The tick counter: timer callbacks of 1 ms come and go, the frequency is *)
(* set, and IRQ 0 is dispatched to the handler timer_init registered.      *)
(***************************************************************************)
TickRegisterCallback ==
    \E cb \in TimerCallbacks :
        LET r == timer_register_callback(St, cb, TimerContext, 1)
        IN  /\ Commit(r.s)
            /\ last_op' = [NoOp EXCEPT !.op = "timer_register", !.ok = r.ret,
                                       !.cb = cb, !.ms = 1]

TickUnregisterCallback ==
    \E cb \in TimerCallbacks :
        LET r == timer_unregister_callback(St, cb)
        IN  /\ Commit(r.s)
            /\ last_op' = [NoOp EXCEPT !.op = "timer_unregister", !.ok = r.ret,
                                       !.cb = cb]

TickSetFrequency ==
    \E f \in {18, 1500} :
        LET r == timer_set_frequency(St, f)
        IN  /\ Commit(r.s)
            /\ last_op' = [NoOp EXCEPT !.op = "set_frequency", !.hz = f,
                                       !.ret = r.ret]

TickDispatch == IrqDispatchOn({0})

NextTick ==
    \/ TickRegisterCallback
    \/ TickUnregisterCallback
    \/ TickSetFrequency
    \/ TickDispatch

SpecTick == InitTimer /\ [][NextTick]_vars

(***************************************************************************)
(* Dispatch and end of interrupt: handlers come and go on lines 7 and 15,  *)
(* and IRQs of these lines and of the cascade line are dispatched, with    *)
(* the in-service bit set or clear.                                        *)
(***************************************************************************)
EoiRegisterHandler == IrqRegisterOn({7, 15})

EoiUnregisterHandler == IrqUnregisterOn({7, 15})

EoiDispatch == IrqDispatchOn({2, 7, 15})

NextEoi ==
    \/ EoiRegisterHandler
    \/ EoiUnregisterHandler
    \/ EoiDispatch

SpecEoi == InitIrq /\ [][NextEoi]_vars

(***************************************************************************)
(* The descriptor table: stray writes change the table or its backup,      *)
(* gdt_verify is called with the tick count, and gdt_recover is called,    *)
(* from the kernel and from a handler that interrupts a recovery after its *)
(* exchange on recovery_in_progress.                                       *)
(***************************************************************************)
\* Largest tick count gdt_verify is called with, in verification intervals.
MaxVerifications == 4

\* The stray writes: the access byte of the kernel code segment, a byte of
\* the null descriptor, the flags of the user code segment, and the busy
\* bit of the TSS descriptor.
GdtWrites ==
    {<<1, "access", 0>>, <<0, "limit_low", 1>>, <<3, "granularity", 0>>,
     <<5, "access", 139>>}

Written(g, w) == [g EXCEPT ![w[1]][w[2]] = w[3]]

GdtCorrupt ==
    /\ ~hung
    /\ ~gdt_c.recovery_in_progress
    /\ gdt_c.gdt = GdtBuilt.g
    /\ \E w \in GdtWrites :
          /\ Commit([St EXCEPT !.gdt_c.gdt = Written(@, w)])
          /\ last_op' = [NoOp EXCEPT !.op = "gdt_write"]

GdtCorruptBackup ==
    /\ ~hung
    /\ ~gdt_c.recovery_in_progress
    /\ gdt_c.gdt_backup_v = GdtBuilt.g
    /\ Commit([St EXCEPT !.gdt_c.gdt_backup_v = Written(@, <<3, "granularity", 0>>)])
    /\ last_op' = [NoOp EXCEPT !.op = "gdt_write"]

GdtVerify ==
    /\ ~hung
    /\ \E k \in {GDT_VERIFICATION_INTERVAL - 1, GDT_VERIFICATION_INTERVAL} :
          LET tick_count == gdt_c.last_verification_time + k
              r == gdt_verify(St, tick_count)
          IN  /\ tick_count <= MaxVerifications * GDT_VERIFICATION_INTERVAL
              /\ Commit(IF r.recover THEN GdtRecoverEnter(r.s).s ELSE r.s)
              /\ last_op' = [NoOp EXCEPT !.op = "gdt_verify",
                                         !.valid = validate_gdt(gdt_c),
                                         !.ok = r.recover]

\* gdt_recover is called: by the kernel, or by a handler while a recovery
\* is in progress.
GdtRecoverCall ==
    /\ ~hung
    /\ LET r == GdtRecoverEnter(St)
       IN  /\ Commit(r.s)
           /\ last_op' = [NoOp EXCEPT !.op = "gdt_recover", !.ok = r.ret,
                                      !.valid = validate_gdt(gdt_c)]

\* The recovery in progress runs to its end.
GdtRecoverRest ==
    /\ ~hung
    /\ gdt_c.recovery_in_progress
    /\ \E tss_ok \in BOOLEAN :
          LET r == GdtRecoverRun(St, tss_ok)
          IN  /\ Commit(r.s)
              /\ last_op' = [NoOp EXCEPT !.op = "gdt_recovered", !.ok = r.ret,
                                         !.valid = validate_gdt(gdt_c)]

NextGdt ==
    \/ GdtCorrupt
    \/ GdtCorruptBackup
    \/ GdtVerify
    \/ GdtRecoverCall
    \/ GdtRecoverRest

SpecGdt == InitTimer /\ [][NextGdt]_vars

(***************************************************************************)
(* Scheduling under continued timer ticks: processes of quantum 1 are      *)
(* created, the current process may yield, and the timer keeps raising     *)
(* IRQ 0, which is taken whenever the interrupt flag is set.  The tick     *)
(* counter wraps, at a width of TickBits bits.                             *)
(***************************************************************************)
TickBits == 3

TickModulus == 2 ^ TickBits

FairCreate == RRCreate

FairYield ==
    /\ ~hung
    /\ \E rf \in RestoredIF :
          LET s == process_yield(St, rf)
          IN  /\ Commit(s)
              /\ last_op' = [NoOp EXCEPT !.op = "yield", !.sched = s.sched,
                                         !.switched = s.switched,
                                         !.slot = current_process]

\* The timer interrupt as the hardware delivers it (see TimerIrq).
FairTimerIrq ==
    /\ ~hung
    /\ interrupts
    /\ \E rf \in RestoredIF :
          LET s == timer_irq_handler([St EXCEPT !.interrupts = FALSE], rf)
              s1 == IF s.sched THEN s ELSE [s EXCEPT !.interrupts = TRUE]
          IN  /\ Commit([s1 EXCEPT !.timer_tick_count = @ % TickModulus])
              /\ last_op' = [NoOp EXCEPT !.op = "irq", !.sched = s.sched,
                                         !.switched = s.switched,
                                         !.slot = current_process]

NextFair ==
    \/ FairCreate
    \/ FairYield
    \/ FairTimerIrq

SpecFair == InitRR /\ [][NextFair]_vars /\ WF_vars(FairTimerIrq)

(***************************************************************************)
(* The end of interrupt of the timer: irq_dispatch(IRQ_TIMER) runs         *)
(* timer_irq_handler, which runs the scheduler's callback, and then sends  *)
(* the EOI.  A context switch inside the callback leaves the rest of the   *)
(* dispatch on the stack of the process switched away from; it runs when   *)
(* a later switch returns to that process.  IRQ 0 is raised again only     *)
(* after its EOI.                                                          *)
(***************************************************************************)
\* irq_dispatch(IRQ_TIMER) to the point where it returns or is switched
\* away from: eoi holds the command ports written.
TimerDispatch(s, rf) ==
    LET h == timer_irq_handler([s EXCEPT !.switched = FALSE], rf)
    IN  IF h.switched
        THEN [s |-> [h EXCEPT !.eoi_pending = @ \cup {s.current_process}],
              eoi |-> <<>>]
        ELSE [s |-> h, eoi |-> pic_send_eoi(0)]

\* The process a switch returned to goes on where it was switched away:
\* a dispatch left on its stack ends with its EOI.
Resumed(s) ==
    IF s.switched /\ s.current_process \in s.eoi_pending
    THEN [s |-> [s EXCEPT !.eoi_pending = @ \ {s.current_process}],
          eoi |-> pic_send_eoi(0)]
    ELSE [s |-> s, eoi |-> <<>>]

AckCreate == RRCreate

AckYield ==
    /\ ~hung
    /\ \E rf \in RestoredIF :
          LET r == Resumed(process_yield([St EXCEPT !.switched = FALSE], rf))
          IN  /\ Commit(r.s)
              /\ last_op' = [NoOp EXCEPT !.op = "yield", !.sched = r.s.sched,
                                         !.switched = r.s.switched, !.eoi = r.eoi]

\* irq_dispatch(IRQ_TIMER) called from kernel code (see IrqDispatchTimer).
AckDispatchTimer ==
    /\ ~hung
    /\ \E rf \in RestoredIF :
          LET d == TimerDispatch(St, rf)
              r == Resumed(d.s)
          IN  /\ Commit([r.s EXCEPT !.timer_tick_count = @ % TickModulus])
              /\ last_op' = [NoOp EXCEPT !.op = "irq_dispatch",
                                         !.sched = r.s.sched,
                                         !.switched = r.s.switched,
                                         !.eoi = d.eoi \o r.eoi]

\* The timer interrupt as the hardware delivers it (see TimerIrq), IRQ 0
\* not being in service.
AckTimerIrq ==
    /\ ~hung
    /\ interrupts
    /\ eoi_pending = {}
    /\ \E rf \in RestoredIF :
          LET d == TimerDispatch([St EXCEPT !.interrupts = FALSE], rf)
              r == Resumed(d.s)
              s1 == IF r.s.sched THEN r.s ELSE [r.s EXCEPT !.interrupts = TRUE]
          IN  /\ Commit([s1 EXCEPT !.timer_tick_count = @ % TickModulus])
              /\ last_op' = [NoOp EXCEPT !.op = "irq", !.sched = r.s.sched,
                                         !.switched = r.s.switched,
                                         !.eoi = d.eoi \o r.eoi]

NextAck ==
    \/ AckCreate
    \/ AckYield
    \/ AckDispatchTimer
    \/ AckTimerIrq

SpecAck == InitRR /\ [][NextAck]_vars /\ WF_vars(AckTimerIrq)

(***************************************************************************)
(* process_lock: the handlers of process.c take the lock before they touch *)
(* the table and release it on every return.  The variable spinlock is     *)
(* process_lock here, as spinlock_init leaves it in process_init.          *)
(***************************************************************************)
\* process_enter_usermode, the assembly primitive: it loads CR3, builds the
\* IRET frame and IRETQs into the process; control does not come back.
process_enter_usermode(s, p, rf) ==
    [vmm_switch_address_space(s, s.process_table[p].page_table)
        EXCEPT !.interrupts = rf]

\* process_execute
process_execute(s, pid, ra, rf) ==
    LET a == spinlock_acquire(s, ra)
    IN  IF a.hung
        THEN [s |-> a, ret |-> FALSE]
        ELSE LET p == process_get_by_id(a, pid)
             IN  IF p = NULL \/ a.process_table[p].state # STATE_READY
                 THEN [s |-> spinlock_release(a), ret |-> FALSE]
                 ELSE [s |-> process_enter_usermode(
                               vmm_switch_address_space(
                                 a, a.process_table[p].page_table), p, rf),
                       ret |-> FALSE]

\* process_create with its lock: the ELF check comes before the acquire.
process_create_locked(s, file, params, ra) ==
    IF file = NoElf \/ ~ElfValid(file)
    THEN process_create(s, file, params)
    ELSE LET a == spinlock_acquire(s, ra)
         IN  IF a.hung
             THEN [s |-> a, ret |-> 0]
             ELSE LET r == process_create(a, file, params)
                  IN  [r EXCEPT !.s = spinlock_release(r.s)]

\* process_terminate with its lock: the release comes before schedule_next
\* on every path.
process_terminate_locked(s, pid, exit_code, ra, rf) ==
    IF pid = 0
    THEN [s |-> s, ret |-> FALSE]
    ELSE LET a == spinlock_acquire(s, ra)
         IN  IF a.hung
             THEN [s |-> a, ret |-> FALSE]
             ELSE LET r == process_terminate(a, pid, exit_code, rf)
                  IN  [r EXCEPT !.s = spinlock_release(r.s)]

\* timer_callback gets as far as its spinlock_acquire.
ReachesAcquire(s) ==
    LET cur == s.current_process
    IN  /\ s.interrupts
        /\ cur # NULL
        /\ s.process_table[cur].state = STATE_RUNNING
        /\ Ge64(s.process_table[cur].cpu_time + 1
                  - s.process_table[cur].last_schedule,
                s.process_table[cur].quantum)

\* timer_irq_handler with the lock of timer_callback.
timer_irq_handler_locked(s, rf) ==
    IF ReachesAcquire(s) /\ s.spinlock.value # 0
    THEN [s EXCEPT !.timer_tick_count = @ + 1, !.hung = TRUE]
    ELSE timer_irq_handler(s, rf)

PLockFiles == {NoElf, "rx"}

\* Two return addresses, one of them with the bit of SPINLOCK_FLAG_IRQSAFE.
PLockCallers == {ra \in LockCallers : ra <= 6}

PLockCreate ==
    /\ ~hung
    /\ next_pid < MaxProc
    /\ \E file \in PLockFiles, ra \in PLockCallers :
          LET r == process_create_locked(St, file, [stack_size |-> PAGE_SIZE_4K,
                                                    time_quantum |-> 1], ra)
          IN  /\ Commit(r.s)
              /\ last_op' = [NoOp EXCEPT !.op = "create", !.ret = r.ret]

PLockExecute ==
    /\ ~hung
    /\ \E pid \in 1 .. MaxPid, ra \in PLockCallers, rf \in BOOLEAN :
          LET r == process_execute(St, pid, ra, rf)
          IN  /\ Commit(r.s)
              /\ last_op' = [NoOp EXCEPT !.op = "execute", !.pid = pid,
                                         !.ok = r.s.spinlock.value # 0 /\ ~r.s.hung]

PLockTerminate ==
    /\ ~hung
    /\ \E pid \in Pids, code \in ExitCodes, ra \in PLockCallers, rf \in RestoredIF :
          LET r == process_terminate_locked(St, pid, code, ra, rf)
          IN  /\ Commit(r.s)
              /\ last_op' = [NoOp EXCEPT !.op = "terminate", !.ok = r.ret,
                                         !.sched = r.s.sched]

\* The timer interrupt as the hardware delivers it (see TimerIrq).
PLockTimerIrq ==
    /\ ~hung
    /\ interrupts
    /\ \E rf \in RestoredIF :
          LET s == timer_irq_handler_locked([St EXCEPT !.interrupts = FALSE], rf)
              s1 == IF s.sched THEN s ELSE [s EXCEPT !.interrupts = TRUE]
          IN  /\ Commit([s1 EXCEPT !.timer_tick_count = @ % TickModulus])
              /\ last_op' = [NoOp EXCEPT !.op = "irq", !.sched = s.sched,
                                         !.isr = spinlock.value # 0]

NextPLock ==
    \/ PLockCreate
    \/ PLockExecute
    \/ PLockTerminate
    \/ PLockTimerIrq

SpecPLock == InitRR /\ [][NextPLock]_vars /\ WF_vars(PLockTimerIrq)

(***************************************************************************)
(* The mask of enabled lines against the mask registers of the two         *)
(* controllers, under every call of irq.c that changes either.             *)
(***************************************************************************)
\* irq_init after the boot: irq_system_initialized is set and the call
\* returns at once.
irq_init(s) == s

\* irq_set_all_masked: both data ports are written directly.
irq_set_all_masked(s) ==
    [s EXCEPT !.pic_imr = [master |-> 0 .. 7, slave |-> 0 .. 7],
              !.irq_enabled_mask = {}]

\* irq_clear_all_masked
irq_clear_all_masked(s) ==
    [s EXCEPT !.pic_imr = [master |-> {}, slave |-> {}],
              !.irq_enabled_mask = 0 .. 15]

\* irq_is_enabled
irq_is_enabled(s, irq) ==
    IF irq >= 16 THEN FALSE ELSE irq \in s.irq_enabled_mask

\* The bit of the line is clear in the value last written to the data port
\* of its controller.
MaskBitClear(s, irq) ==
    IF irq < 8 THEN irq \notin s.pic_imr.master
    ELSE (irq - 8) \notin s.pic_imr.slave

\* Lines given to the calls: one of the master, the cascade line, one of
\* the slave.
MaskLines == {0, 2, 15}

\* The handler given to the calls.
MaskHandlers == {"a"}

MaskInit ==
    /\ Commit(irq_init(St))
    /\ last_op' = [NoOp EXCEPT !.op = "irq_init"]

MaskEnable ==
    \E irq \in MaskLines :
        /\ Commit(irq_enable(St, irq))
        /\ last_op' = [NoOp EXCEPT !.op = "irq_enable", !.line = irq]

MaskDisable ==
    \E irq \in MaskLines :
        /\ Commit(irq_disable(St, irq))
        /\ last_op' = [NoOp EXCEPT !.op = "irq_disable", !.line = irq]

MaskRegister ==
    \E irq \in MaskLines, h \in MaskHandlers :
        LET r == irq_register_handler(St, irq, h, IrqContext)
        IN  /\ Commit(r.s)
            /\ last_op' = [NoOp EXCEPT !.op = "irq_register", !.ok = r.ret,
                                       !.line = irq]

MaskUnregister ==
    \E irq \in MaskLines, h \in MaskHandlers :
        LET r == irq_unregister_handler(St, irq, h)
        IN  /\ Commit(r.s)
            /\ last_op' = [NoOp EXCEPT !.op = "irq_unregister", !.ok = r.ret,
                                       !.line = irq]

MaskSetAll ==
    /\ Commit(irq_set_all_masked(St))
    /\ last_op' = [NoOp EXCEPT !.op = "irq_set_all_masked"]

MaskClearAll ==
    /\ Commit(irq_clear_all_masked(St))
    /\ last_op' = [NoOp EXCEPT !.op = "irq_clear_all_masked"]

NextMask ==
    \/ MaskInit
    \/ MaskEnable
    \/ MaskDisable
    \/ MaskRegister
    \/ MaskUnregister
    \/ MaskSetAll
    \/ MaskClearAll

SpecMask == InitIrq /\ [][NextMask]_vars

(***************************************************************************)
(* The PID counter: process_create is called, with a well-formed, a        *)
(* malformed and no buffer, until the counter has wrapped, and processes   *)
(* are terminated; the PID allocate_pid handed out is recorded whenever    *)
(* the call reached it.                                                    *)
(***************************************************************************)
PidFiles == {NoElf, "rx", "elx"}

InitPid == \E mp \in MinPages .. MaxPages : InitWith(mp, TRUE, MaxProc)

PidCreate ==
    /\ ~hung
    /\ \E file \in PidFiles :
          LET r == process_create(St, file, [stack_size |-> PAGE_SIZE_4K,
                                             time_quantum |-> 0])
          IN  /\ Commit(r.s)
              /\ last_op' = [NoOp EXCEPT !.op = "create", !.ret = r.ret,
                                         !.valid = file # NoElf /\ ElfValid(file),
                                         !.slot = r.s.slot,
                                         !.fresh = r.s.next_pid # next_pid,
                                         !.pid = IF r.s.next_pid # next_pid
                                                 THEN allocate_pid(St).ret
                                                 ELSE 0]

PidTerminate == ProcessTerminate

NextPid ==
    \/ PidCreate
    \/ PidTerminate

SpecPid == InitPid /\ [][NextPid]_vars


(***************************************************************************)
(* What the properties below read off a state.                             *)
(***************************************************************************)
\* The PCBs met by following `next` from `head`, at most n of them.
RECURSIVE Chain(_, _)
Chain(p, n) ==
    IF p = NULL \/ n = 0
    THEN <<>>
    ELSE <<p>> \o Chain(process_table[p].next, n - 1)

ReadyChain == Chain(ready_queue_head, Cardinality(DOMAIN process_table) + 1)

BlockedChain == Chain(blocked_queue_head, Cardinality(DOMAIN process_table) + 1)

Members(chain) == {chain[i] : i \in DOMAIN chain}

Twice(chain) == \E i, j \in DOMAIN chain : i < j /\ chain[i] = chain[j]

RunningSlots == {i \in DOMAIN process_table : process_table[i].state = STATE_RUNNING}

\* A user PCB that holds a process: not the idle slot, a PID given, not
\* Terminated.
Live(i) ==
    /\ i # idle_process
    /\ process_table[i].pid # 0
    /\ process_table[i].state # STATE_TERMINATED

\* The slot is one the search loop of process_create would take.
SlotFree(table, i) ==
    table[i].state = STATE_TERMINATED \/ table[i].pid = 0

FreeCount == pmm_get_free_memory(St)

\* The present entries of the table at frame f: index and entry.
PresentEntries(f) ==
    {<<i, TableAt(St, f)[i]>> : i \in {j \in DOMAIN TableAt(St, f) :
                                          EntryPresent(TableAt(St, f), j)}}

\* The page-table frames under the lower half of the PML4 at pml4, and the
\* 4 KB leaf entries below them, each with its virtual address.
PdptsOf(pml4) == {<<<<e[1]>>, e[2].addr>> : e \in {x \in PresentEntries(pml4) : x[1] < KernelHalf}}

PdsOf(pml4) ==
    UNION {{<<d[1] \o <<e[1]>>, e[2].addr>> : e \in PresentEntries(d[2])} : d \in PdptsOf(pml4)}

PtsOf(pml4) ==
    UNION {{<<d[1] \o <<e[1]>>, e[2].addr>> : e \in PresentEntries(d[2])} : d \in PdsOf(pml4)}

LeavesOf(pml4) ==
    UNION {{[va |-> d[1] \o <<e[1]>>, addr |-> e[2].addr, flags |-> e[2].flags]
              : e \in PresentEntries(d[2])} : d \in PtsOf(pml4)}

\* The frames the process in slot i holds: its PML4 and the tables below it,
\* the frames its leaves map (stack and segments), and the two header
\* buffers and the segments of its ELF context.
FramesOf(i) ==
    LET pr == process_table[i]
        tables == IF pr.page_table = 0 THEN {}
                  ELSE {pr.page_table}
                       \cup {d[2] : d \in PdptsOf(pr.page_table)}
                       \cup {d[2] : d \in PdsOf(pr.page_table)}
                       \cup {d[2] : d \in PtsOf(pr.page_table)}
        leaves == IF pr.page_table = 0 THEN {}
                  ELSE {l.addr : l \in LeavesOf(pr.page_table)}
        segs == UNION {g.vaddr .. (g.vaddr + g.size - 1) :
                          g \in Members(pr.elf_ctx.loaded_segments)}
    IN  tables \cup leaves \cup segs
        \cup ({pr.elf_ctx.program_headers, pr.elf_ctx.section_headers} \ {0})

Owners(f) == {i \in DOMAIN process_table : Live(i) /\ f \in FramesOf(i)}

(***************************************************************************)
(* The properties.                                                         *)
(***************************************************************************)
\* C1: in every state after process_register_kernel_idle and any sequence
\* of process_create, ticks, yield, block, unblock and terminate, exactly
\* one PCB is Running and current_process points to it.
C1_ExactlyOneRunning ==
    /\ Cardinality(RunningSlots) = 1
    /\ current_process # NULL
    /\ RunningSlots = {current_process}

\* C2: every PCB slot, idle included, is in at most one of: the ready
\* queue, the blocked queue, the current/Running selection; and no PCB is
\* linked into one queue twice.
C2_OnePlacePerPcb ==
    /\ ~Twice(ReadyChain)
    /\ ~Twice(BlockedChain)
    /\ \A i \in DOMAIN process_table :
          /\ ~(i \in Members(ReadyChain) /\ i \in Members(BlockedChain))
          /\ ~(i \in Members(ReadyChain) /\ i = current_process)
          /\ ~(i \in Members(BlockedChain) /\ i = current_process)

\* C3: in a state reached by a scheduling decision (a call that ran
\* schedule_next), if a non-idle PCB is Ready and waits in the ready queue,
\* the idle PCB is not the Running process.
C3_IdleOnlyWhenNoneReady ==
    (/\ last_op.sched
     /\ \E i \in Members(ReadyChain) :
           i # idle_process /\ process_table[i].state = STATE_READY)
    => ~(current_process = idle_process
         /\ process_table[idle_process].state = STATE_RUNNING)

\* C4: after every context switch, switches to the idle PCB included, the
\* PML4 in CR3 (current_pml4_phys) is the context.cr3 of the process that
\* now runs.
C4_Cr3IsCurrentContext ==
    (last_op.switched /\ current_process # NULL)
    => current_pml4_phys = process_table[current_process].context.cr3

\* C5: a process_create that fails after picking a slot undoes every
\* earlier step: the free-frame count is what it was before the call, the
\* slot is again one a later process_create would take, and both queues are
\* as before.
C5_FailedCreateUndone ==
    [][(last_op'.op = "create" /\ last_op'.ret = 0 /\ last_op'.slot # NULL)
       => /\ FreeCount' = FreeCount
          /\ SlotFree(process_table', last_op'.slot)
          /\ ReadyChain' = ReadyChain
          /\ BlockedChain' = BlockedChain]_vars

\* C6: a successful process_create followed by process_terminate of that
\* process leaves the process Terminated with the exit code, in no queue,
\* the free-frame count at its value before the create, and the slot
\* reusable.
C6_CreateTerminateRestores ==
    [][(/\ last_op.op = "create" /\ last_op.ret # 0
        /\ last_op'.op = "terminate" /\ last_op'.ok /\ last_op'.pid = last_op.ret)
       => /\ FreeCount' = last_op.free_before
          /\ SlotFree(process_table', last_op.slot)
          /\ process_table'[last_op.slot].state = STATE_TERMINATED
          /\ process_table'[last_op.slot].exit_code \in ExitCodes
          /\ last_op.slot \notin Members(ReadyChain')
          /\ last_op.slot \notin Members(BlockedChain')]_vars

\* C7: for a buffer that fails the ELF validation (magic, class,
\* endianness, version, machine, type, header ranges), process_create
\* returns 0 and leaves the PID counter, the PMM bitmap and the process
\* table as they were.
C7_InvalidElfChangesNothing ==
    [][(last_op'.op = "create" /\ ~last_op'.valid)
       => /\ last_op'.ret = 0
          /\ next_pid' = next_pid
          /\ page_bitmap' = page_bitmap
          /\ process_table' = process_table]_vars

\* C8: for every frame of the arena, the PMM bitmap bit is set if and only
\* if the frame has exactly one live owner.
C8_BitSetIffOwned ==
    \A j \in DOMAIN page_bitmap :
        page_bitmap[j] <=> (Cardinality(Owners(PhysOf(j))) = 1)

\* C9: every successful vmm_map_page(v, p, flags) not followed by
\* vmm_unmap_page(v) has vmm_get_physical_address(v) = p and
\* vmm_is_mapped(v), and right after vmm_unmap_page(v) vmm_is_mapped(v) is
\* false.
C9_MapHoldsUntilUnmap ==
    /\ \A m \in last_op.live :
          /\ vmm_get_physical_address(St, m[1]) = m[2]
          /\ vmm_is_mapped(St, m[1])
    /\ (last_op.op = "unmap" => ~vmm_is_mapped(St, last_op.va))

\* C10: when the CPU supports NX, no present leaf of a process's address
\* space (stack and ELF segments included) is Writable with NX clear.
C10_WritableNotExecutable ==
    using_nx =>
        \A i \in DOMAIN process_table :
            (Live(i) /\ process_table[i].page_table # 0)
            => \A l \in LeavesOf(process_table[i].page_table) :
                   "W" \in l.flags => "NX" \in l.flags


\* The non-zero entries 256-511 of the PML4 at p.
KernelEntries(p) ==
    [i \in {j \in DOMAIN TableAt(St, p) : j >= KernelHalf} |-> TableAt(St, p)[i]]

\* C11: every address space created and not deleted has the same PML4
\* entries 256-511 as the kernel's PML4 (hence as every other space), also
\* after kernel-half vmm_map_page calls made while any of them is current.
C11_KernelHalfShared ==
    \A p \in last_op.spaces : KernelEntries(p) = KernelEntries(KernelPml4)

\* C12: a timer interrupt taken while a process is Running adds one to that
\* PCB's cpu_time; once cpu_time - last_schedule reaches the quantum the
\* head of the ready queue is dispatched, the PCB being Ready at the tail of
\* the ready queue unless it was itself the only candidate.
C12_TickAccounted ==
    [][(/\ last_op'.op = "irq"
        /\ current_process # NULL
        /\ process_table[current_process].state = STATE_RUNNING)
       => LET c == current_process
              before == process_table[c]
              after == process_table'[c]
          IN  /\ after.cpu_time = before.cpu_time + 1
              /\ Ge64(before.cpu_time + 1 - before.last_schedule, before.quantum)
                   => /\ current_process' =
                            (IF ready_queue_head # NULL THEN ready_queue_head ELSE c)
                      /\ current_process' # c
                            => after.state = STATE_READY /\ ready_queue_tail' = c]_vars

\* C13: the ready queue is FIFO and time is shared round-robin: a
\* scheduling decision that finds the ready queue non-empty dispatches its
\* head, a PCB enters the queue at the tail, and with two processes of
\* quantum 1 the numbers of ticks each has run differ by at most 1.
C13_RoundRobin ==
    [][/\ (last_op'.sched /\ ready_queue_head # NULL)
          => current_process' = ready_queue_head
       /\ \A i \in Members(ReadyChain') \ Members(ReadyChain) :
              ready_queue_tail' = i
       /\ \A i, j \in Runnable' :
              last_op'.ran[i] - last_op'.ran[j] <= 1]_vars

\* C14: process_block(s) with s other than Running leaves the caller in
\* state s and in the blocked queue, and no PCB goes from Blocked or
\* Suspended to Running: process_unblock has to make it Ready first.
C14_BlockedUntilUnblocked ==
    [][/\ (/\ last_op'.op = "block"
           /\ last_op'.arg # STATE_RUNNING
           /\ current_process # NULL)
          => /\ process_table'[current_process].state = last_op'.arg
             /\ current_process \in Members(BlockedChain')
       /\ \A i \in DOMAIN process_table :
              process_table[i].state \in {STATE_BLOCKED, STATE_SUSPENDED}
                 => process_table'[i].state # STATE_RUNNING]_vars

\* The frames reached as page tables from the current PML4.
TablesBelow(s, fs) ==
    UNION {{TableAt(s, f)[i].addr :
              i \in {j \in DOMAIN TableAt(s, f) :
                        EntryPresent(TableAt(s, f), j) /\ ~EntryHuge(TableAt(s, f), j)}}
           : f \in fs}

TableFramesOf(s) ==
    {s.current_pml4_phys}
    \cup TablesBelow(s, {s.current_pml4_phys})
    \cup TablesBelow(s, TablesBelow(s, {s.current_pml4_phys}))
    \cup TablesBelow(s, TablesBelow(s, TablesBelow(s, {s.current_pml4_phys})))

\* C15: a vmm_allocate that found its area free and returned NULL leaves the
\* PMM bitmap as it was apart from the bits of page-table frames, leaves none
\* of the area's pages mapped and leaves the area unused, in the kernel area
\* and in the user area.
C15_AllocateUndone ==
    [][(/\ last_op'.op = "allocate" /\ last_op'.size > 0
        /\ ~area_used[last_op'.area] /\ last_op'.va = NullVA)
       => /\ \A j \in DOMAIN page_bitmap :
                 page_bitmap'[j] # page_bitmap[j] => PhysOf(j) \in TableFramesOf(St')
          /\ \A i \in 0 .. (PagesFor(last_op'.size) - 1) :
                 LeafAt(St', VaAdd(AreaBase(last_op'.area), i)) = 0
          /\ ~area_used'[last_op'.area]]_vars

\* C16: vmm_free of the address and size of the successful vmm_allocate just
\* before it clears the bits of exactly the frames the allocation took,
\* changes no other bit, leaves the pages unmapped and the area unused, in
\* the kernel area and in the user area.
C16_FreeSymmetric ==
    [][(/\ last_op.op = "allocate" /\ last_op.va # NullVA
        /\ last_op'.op = "free" /\ last_op'.va = last_op.va
        /\ last_op'.size = last_op.size)
       => /\ \A j \in DOMAIN page_bitmap :
                 page_bitmap'[j] = (page_bitmap[j] /\ PhysOf(j) \notin last_op.took)
          /\ \A i \in 0 .. (PagesFor(last_op.size) - 1) :
                 LeafAt(St', VaAdd(last_op.va, i)) = 0
          /\ ~area_used'[last_op.area]]_vars


\* C20: pmm_free_page of the page the successful pmm_alloc_page just before
\* it returned makes pmm_is_page_free true of the page and brings
\* pmm_get_free_memory back to its value before the allocation.
C20_AllocFreeRoundTrip ==
    [][(/\ last_op.op = "pmm_alloc" /\ last_op.ret # 0
        /\ last_op'.op = "pmm_free" /\ last_op'.phys = last_op.ret)
       => /\ pmm_is_page_free(St', last_op.ret)
          /\ FreeCount' = last_op.free_before]_vars

\* A page was allocated and freed again while other pages stay allocated.
C20_Witness ==
    /\ last_op.op = "pmm_free"
    /\ pmm_is_page_free(St, last_op.phys)
    /\ FreeCount = last_op.free_before
    /\ FreeCount < max_pages

\* The pages of the segments of the buffer of a context: the virtual
\* addresses elf_load maps.
SegmentPages(file) ==
    UNION {{VaAdd(ElfFile[file].ph[i].p_vaddr, k) :
              k \in 0 .. (PagesFor(ElfFile[file].ph[i].p_memsz) - 1)}
           : i \in {j \in DOMAIN ElfFile[file].ph : ElfFile[file].ph[j].p_type = PT_LOAD}}

\* C17: elf_cleanup after a successful elf_load of a valid ELF brings the
\* free-frame count back to its value before elf_init and leaves none of
\* the segments' virtual addresses mapped.
C17_LoadCleanupRoundTrip ==
    [][(/\ last_op.op = "elf_load" /\ last_op.ok /\ last_op.valid
        /\ last_op'.op = "elf_cleanup")
       => /\ FreeCount' = last_op.free_before
          /\ \A v \in SegmentPages(process_table[ElfSlot].elf_ctx.header) :
                 LeafAt(St', v) = 0]_vars

\* C18: vmm_unmap_page of the address a successful vmm_map_page just mapped,
\* the address having been unmapped before, leaves vmm_is_mapped and
\* vmm_get_physical_address answering as before the map for every address,
\* and the PMM bit of the mapped frame as it was.
C18_MapUnmapRoundTrip ==
    [][(/\ last_op.op = "map" /\ last_op.ok /\ last_op.fresh
        /\ last_op'.op = "unmap" /\ last_op'.va = last_op.va)
       => /\ Observed(St') = last_op.obs
          /\ pmm_is_page_free(St', last_op.phys) = last_op.pbit]_vars

\* No address of the lower half is mapped in the address space at pml4.
NothingMapped(pml4) ==
    \A v \in {a \in AsAddrs : LowerHalf(a)} :
        Walk([St EXCEPT !.current_pml4_phys = pml4], v).level = "none"

\* C19: vmm_create_address_space leaves the current PML4 as it was, and
\* vmm_delete_address_space of the space it returned, after nothing but
\* switches and lower-half mappings into that space which were all unmapped
\* again, leaves the current PML4 as it was and the free-frame count at its
\* value before the create.
C19_CreateDeleteRoundTrip ==
    [][/\ last_op'.op = "as_create" => current_pml4_phys' = current_pml4_phys
       /\ (/\ last_op'.op = "as_delete" /\ last_op.tracked # 0
           /\ last_op'.phys = last_op.tracked /\ NothingMapped(last_op.tracked))
          => /\ current_pml4_phys' = current_pml4_phys
             /\ FreeCount' = last_op.free_before]_vars

\* The n frames from page on are frames of the arena with clear bits.
RunFree(page, n) ==
    \A k \in 0 .. (n - 1) : InArena(St, page + k) /\ ~page_bitmap[page + k - FirstFrame]

\* C21: pmm_alloc_page returns the lowest free frame of the arena, or 0 when
\* there is none; pmm_alloc_pages(n) returns the base of the lowest run of n
\* free frames inside the arena, or 0 when there is none; and
\* pmm_alloc_pages(n) right after pmm_free_pages(P, n) of the run the
\* pmm_alloc_pages(n) before it returned gives P again.
C21_FirstFit ==
    [][/\ last_op'.op = "pmm_alloc"
          => IF last_op'.ret = 0
             THEN \A q \in FirstFrame .. (FirstFrame + max_pages) : ~RunFree(q, 1)
             ELSE /\ RunFree(last_op'.ret, 1)
                  /\ \A q \in FirstFrame .. (last_op'.ret - 1) : ~RunFree(q, 1)
       /\ (last_op'.op = "pmm_allocs" /\ last_op'.size > 0)
          => IF last_op'.ret = 0
             THEN \A q \in FirstFrame .. (FirstFrame + max_pages) :
                      ~RunFree(q, last_op'.size)
             ELSE /\ RunFree(last_op'.ret, last_op'.size)
                  /\ \A q \in FirstFrame .. (last_op'.ret - 1) :
                         ~RunFree(q, last_op'.size)
       /\ (last_op'.op = "pmm_allocs" /\ last_op'.size = 0) => last_op'.ret = 0
       /\ (/\ last_op.op = "pmm_frees" /\ last_op.rt
           /\ last_op'.op = "pmm_allocs" /\ last_op'.size = last_op.size)
          => last_op'.ret = last_op.phys]_vars

\* pmm_alloc_pages has returned again the run of two or more frames that was
\* freed just before, with a lower frame still allocated.
C21_Witness ==
    /\ last_op.op = "pmm_allocs"
    /\ last_op.rt
    /\ last_op.size > 1
    /\ last_op.ret > FirstFrame
    /\ \A k \in 0 .. (last_op.size - 1) : page_bitmap[last_op.ret + k - FirstFrame]

\* The frequency the range 19 Hz to PIT_BASE_FREQUENCY clamps f to.
Clamped(f) ==
    IF f < 19 THEN 19 ELSE IF f > PIT_BASE_FREQUENCY THEN PIT_BASE_FREQUENCY ELSE f

\* C24: after timer_set_frequency(f) the frequency in effect is 19 when
\* f < 19, 1193182 when f > 1193182 and f otherwise, and the divisor
\* programmed into the PIT is 1193182 divided by the frequency in effect.
C24_FrequencyClamped ==
    [][last_op'.op = "set_frequency"
       => /\ timer_frequency' = Clamped(last_op'.hz)
          /\ last_op'.ret = PIT_BASE_FREQUENCY \div timer_frequency']_vars

\* C22: when timer_sleep_ms(x) returns on an initialised timer, at whatever
\* frequency in range, timer_get_uptime_ms is at least x more than it was
\* at the call; and timer_sleep_ms(0) returns without waiting for a tick.
C22_SleepLastsLongEnough ==
    [][last_op'.op = "sleep_ms"
       => /\ last_op'.ret - last_op'.up >= last_op'.ms
          /\ last_op'.ms = 0 => last_op'.waited = 0]_vars

\* C26: timer_unregister_callback(cb) right after a successful
\* timer_register_callback(cb, ctx, ms) leaves every slot of the callback
\* table (callback, context, interval, deadline, active flag) as it was
\* before the register.
C26_RegisterUnregisterRoundTrip ==
    [][(/\ last_op.op = "timer_register" /\ last_op.ok
        /\ last_op'.op = "timer_unregister" /\ last_op'.cb = last_op.cb)
       => timer_callbacks' = last_op.tbl]_vars

\* C25: irq_unregister_handler(line, h) right after a successful
\* irq_register_handler(line, h, ctx) leaves the handler table of the line
\* and the mask registers of both controllers as they were before the
\* register.
C25_IrqRegisterUnregisterRoundTrip ==
    [][(/\ last_op.op = "irq_register" /\ last_op.ok
        /\ last_op'.op = "irq_unregister"
        /\ last_op'.line = last_op.line /\ last_op'.cb = last_op.cb)
       => /\ irq_handlers'[last_op.line] = last_op.tbl
          /\ pic_imr' = last_op.masks]_vars

\* The handlers the slots of a line hold, slot by slot.
HandlersAt(irq, slots) == [k \in DOMAIN slots |-> irq_handlers[irq][slots[k]].handler]

\* C27: irq_dispatch of an IRQ that is not spurious calls every active
\* handler of the line once, in the order the handlers were registered in,
\* and takes the IRQ as handled iff one of them reported it handled.
C27_DispatchInRegistrationOrder ==
    [][(/\ last_op'.op = "irq_dispatch" /\ last_op'.line < 16
        /\ ~irq_is_spurious(last_op'.line, last_op'.isr))
       => /\ HandlersAt(last_op'.line, last_op'.called)
               = HandlersAt(last_op'.line, last_op.order[last_op'.line])
          /\ last_op'.handled
               <=> \E k \in DOMAIN last_op'.called :
                      HandlersAt(last_op'.line, last_op'.called)[k] # "n"]_vars

\* The controllers let the line through: its own bit is clear and, for a
\* line of the slave, so is the cascade bit of the master.
Unmasked(imr, irq) ==
    IF irq < 8 THEN irq \notin imr.master
    ELSE (irq - 8) \notin imr.slave /\ 2 \notin imr.master

\* C29: irq_register_handler installs the handler in the lowest slot that
\* is not active; when it installs the first active handler of a line, the
\* line's mask bit is clear afterwards, and the cascade bit too for lines
\* 8-15; and as long as irq_disable was not called (no mask-all call is ever
\* made), every line with an active handler is unmasked.
C29_HandledLinesUnmasked ==
    [][/\ (last_op'.op = "irq_register" /\ last_op'.ok)
          => /\ last_op'.slot = Min(DOMAIN irq_handlers[last_op'.line]
                                      \ ActiveSlots(St, last_op'.line))
             /\ ActiveSlots(St, last_op'.line) = {}
                  => Unmasked(pic_imr', last_op'.line)
       /\ ~last_op'.explicit
          => \A irq \in IrqLines :
                 ActiveSlots(St', irq) # {} => Unmasked(pic_imr', irq)]_vars

\* C28: irq_dispatch of IRQ 7 with its in-service bit clear counts the IRQ
\* spurious, calls no handler and writes no EOI; of IRQ 15 with its bit clear
\* it writes one EOI, to the master; every other dispatch writes the EOI to
\* the master alone for lines 0-7, and to the slave and then to the master
\* for lines 8-15.
C28_EoiProtocol ==
    [][last_op'.op = "irq_dispatch"
       => IF last_op'.line \in {7, 15} /\ ~last_op'.isr
          THEN /\ last_op'.spurious
               /\ last_op'.called = <<>>
               /\ last_op'.eoi = IF last_op'.line = 7 THEN <<>> ELSE <<"master">>
          ELSE /\ ~last_op'.spurious
               /\ last_op'.eoi = IF last_op'.line < 8 THEN <<"master">>
                                 ELSE <<"slave", "master">>]_vars

\* IRQ 15 was dispatched with its in-service bit set, its handlers were called
\* and none took the IRQ, and the EOI went to the slave and then to the
\* master.
C28_Witness ==
    /\ last_op.op = "irq_dispatch"
    /\ last_op.line = 15
    /\ last_op.isr
    /\ last_op.called # <<>>
    /\ ~last_op.handled
    /\ last_op.eoi = <<"slave", "master">>

\* C23: timer_get_ticks never decreases; a dispatch of IRQ 0 adds exactly
\* one to it, whatever callbacks are registered and whatever they do, and
\* no other call changes it.
C23_OneTickPerTimerIrq ==
    [][/\ timer_get_ticks(St') >= timer_get_ticks(St)
       /\ timer_get_ticks(St') =
             IF last_op'.op = "irq_dispatch" /\ last_op'.line = 0
             THEN timer_get_ticks(St) + 1
             ELSE timer_get_ticks(St)]_vars

\* IRQ 0 was dispatched for the second time or later with two callbacks
\* registered: one that ran and was rescheduled, and one that ran and
\* unregistered itself, leaving its deadline in an inactive slot.
C23_Witness ==
    /\ last_op.op = "irq_dispatch"
    /\ last_op.line = 0
    /\ timer_tick_count >= 2
    /\ \E i, j \in DOMAIN timer_callbacks :
          /\ timer_callbacks[i].active
          /\ timer_callbacks[i].callback = "a"
          /\ timer_callbacks[i].next_tick
               = timer_tick_count + TickIncrement(St, timer_callbacks[i].interval_ms)
          /\ ~timer_callbacks[j].active
          /\ timer_callbacks[j].interval_ms = 1
          /\ timer_callbacks[j].next_tick = timer_tick_count

\* C30: with a spinlock initialised with SPINLOCK_FLAG_IRQSAFE, interrupts
\* are disabled once spinlock_acquire has taken the lock and for as long as
\* the lock is held, and spinlock_release leaves the interrupt flag as it
\* was just before the acquire.
C30_IrqSafeLock ==
    [][HasFlag(spinlock.flags, SPINLOCK_FLAG_IRQSAFE)
       => /\ (last_op'.op = "acquire" /\ ~hung') => ~interrupts'
          /\ (spinlock'.value # 0 /\ last_op'.op # "lock_init") => ~interrupts'
          /\ (last_op.op = "acquire" /\ ~hung /\ last_op'.op = "release")
               => interrupts' = last_op.was_if]_vars

\* The leaves of the address space of slot i that map the page-sized
\* virtual page n.
LeavesAt(i, n) ==
    {l \in LeavesOf(process_table[i].page_table) : l.va = VaOfPage(n)}

\* C31: in the address space of every process that process_create built,
\* each page of the stack is mapped User and Writable, and NX when NX is
\* supported, the page just below the lowest stack page is not mapped, and
\* the saved RSP is the high end of the stack, a multiple of 16 (the model
\* counts RSP in pages, so it is aligned when the page size is).
C31_StackPagesProtected ==
    \A i \in DOMAIN process_table :
        (Live(i) /\ process_table[i].page_table # 0 /\ process_table[i].stack_top # 0)
        => LET pr == process_table[i]
               n == PagesFor(pr.stack_size)
           IN  /\ \A k \in (StackBasePage - n + 1) .. StackBasePage :
                      /\ LeavesAt(i, k) # {}
                      /\ \A l \in LeavesAt(i, k) :
                             /\ {"U", "W"} \subseteq l.flags
                             /\ using_nx => "NX" \in l.flags
               /\ LeavesAt(i, StackBasePage - n) = {}
               /\ pr.context.rsp = StackBasePage + 1
               /\ PAGE_SIZE_4K % 16 = 0

\* C32: allocate_pid never hands out 0: every PID it returns is at least 1,
\* the counter it leaves is at least 1, and the PID handed out after the
\* largest value of the counter is 1.
C32_PidNeverZero ==
    /\ next_pid >= 1
    /\ (last_op.op = "create" /\ last_op.fresh)
       => /\ last_op.pid >= 1
          /\ next_pid = IF last_op.pid = PidModulus - 1 THEN 1 ELSE last_op.pid + 1
          /\ last_op.ret \in {0, last_op.pid}

\* The counter has just wrapped: allocate_pid handed out the largest value.
C32_Witness ==
    /\ last_op.op = "create"
    /\ last_op.fresh
    /\ last_op.pid = PidModulus - 1
    /\ next_pid = 1

\* C33: elf_init accepts a buffer only if the program header table
\* [e_phoff, e_phoff + e_phnum * e_phentsize) and the section header table
\* [e_shoff, e_shoff + e_shnum * e_shentsize) lie within the buffer, also
\* for header fields whose sums exceed the largest offset.
C33_HeaderTablesInBuffer ==
    (last_op.op = "elf_init" /\ last_op.ok) => InBuffer(ElfFile[last_op.cb])

C35_NoStarvation ==
    ([]<><<FairTimerIrq>>_vars)
    => \A i \in 1 .. (MaxProc - 1) :
          (Live(i) /\ process_table[i].state = STATE_READY)
          ~> (current_process = i /\ process_table[i].state = STATE_RUNNING)

C37_LookupFindsCreated ==
    \A i \in 1 .. (MaxProc - 1) :
        (Live(i) /\ process_table[i].state # STATE_NEW)
        => process_get_by_id(St, process_table[i].pid) = i

\* C38: process_lock is deadlock-free on the one CPU: whenever the lock is
\* held it is released eventually, process_execute included, and no caller
\* is left spinning on it.
C38_ProcessLockReleased ==
    (spinlock.value # 0 \/ hung) ~> (spinlock.value = 0 /\ ~hung)

\* C39: after any sequence of irq_init, irq_enable, irq_disable,
\* irq_register_handler, irq_unregister_handler, irq_set_all_masked and
\* irq_clear_all_masked, a line is enabled for irq_is_enabled exactly when
\* its bit is clear in the value last written to the data port of its PIC.
C39_EnabledIffUnmasked ==
    \A l \in 0 .. 15 : irq_is_enabled(St, l) <=> MaskBitClear(St, l)

\* C40: whenever process_yield or process_block has run the scheduler and
\* control is back with a process, through a context switch or because the
\* scheduler selected the caller itself, interrupts are enabled again.
C40_InterruptsBackOn ==
    (last_op.op \in {"yield", "block"} /\ last_op.sched /\ ~hung) => interrupts

====
